---- MODULE Spec2Model ----
(***************************************************************************)
(* Ledis: an embeddable Redis-compatible in-memory store.                  *)
(*                                                                         *)
(* The module holds several specifications over one set of variables:      *)
(*   SpecTx    connections, WATCH/MULTI/EXEC, client tracking; every       *)
(*             command is one step, EXEC is one step per queued command    *)
(*   SpecConn  one connection of SpecTx, and direct calls of the store API *)
(*   SpecExec  one connection of SpecTx queueing commands that fail        *)
(*   SpecClose connections of SpecTx on one key, closed by their peers     *)
(*   SpecEvict the eviction loop with Set and Close                        *)
(*   SpecPushX LPUSHX / RPUSHX with the push and pop steps of SpecList     *)
(*   SpecPar   one transaction of one connection from a drawn store        *)
(*   SpecAdd   the INCR family of one caller at a scaled integer width     *)
(*   SpecLock  the locks taken by handlers and by RPush / LTrim            *)
(*   SpecZRange ZRANGEBYSCORE / ZREVRANGEBYSCORE over a small sorted set    *)
(*   SpecTtl   TTL of one key with expiries of whole and part seconds      *)
(*   SpecRegistry the observer registry called directly                    *)
(*   SpecRecreate SpecList started on a key that holds a one-value list    *)
(*   SpecPeer  handlers, push goroutines and sockets of two connections    *)
(*   SpecScc   the same connections with the list commands in the         *)
(*             alphabet, and direct calls of the store API                 *)
(*   SpecIncr  IncrBy at the granularity of its sync.Map calls             *)
(*   SpecList  list push / pop / blocking pop at the granularity of the    *)
(*             critical sections of Item.Mu and of the sync.Map calls      *)
(***************************************************************************)
EXTENDS Integers, Sequences, FiniteSets, TLC

(* ---------------------------------------------------------------------- *)
(* Bounds                                                                  *)
(* ---------------------------------------------------------------------- *)
Clients == {"c1", "c2"}
Keys == {"k1", "k2"}
Vals == {"v1"}

\* commands read from all connections together
MaxCmds == 6
\* commands queued inside one MULTI
MaxQueue == 2

(* ---------------------------------------------------------------------- *)
(* State of the connection-level specifications                            *)
(* ---------------------------------------------------------------------- *)
VARIABLES
  store,              \* the shards, as one partial map key -> Item
  invalidationTable,  \* DistributedMap.invalidationTable: key -> observers
  clientKeys,         \* DistributedMap.clientKeys: observer -> keys
  tracking,           \* Client.tracking
  watching,           \* Client.watching
  inTx,               \* Client.inTx
  dirty,              \* Client.dirty
  txQueue,            \* Client.txQueue
  goroutines,         \* Invalidate's goroutines not yet run: client -> key -> count
  out,                \* tokens written to the connection since its last command was read
  exec,               \* the EXEC in progress on the connection
  used,               \* commands read so far, over all connections
  seed,               \* DistributedMap.seed, as the placement of the keys it gives
  touched,            \* history: watched keys mutated since WATCH, by others / by anyone
  last                \* history: outcome of the connection's last command

txVars == <<store, invalidationTable, clientKeys, tracking, watching, inTx, dirty,
            txQueue, goroutines, out, exec, used, seed, touched, last>>

(* ---------------------------------------------------------------------- *)
(* State of the call-level specifications: one key of one shard, seen at   *)
(* the granularity of the sync.Map calls and of the sections under Item.Mu *)
(* ---------------------------------------------------------------------- *)
VARIABLES
  shard,              \* the *Item the shard's sync.Map holds for the key, 0 for none
  heap,               \* the Items allocated so far, by pointer
  itemPool,           \* itemPool: the pointers Put and not yet taken by Get
  task,               \* the calling goroutines: position and locals
  chan,               \* the one-shot channel of each blocking pop
  hist,               \* history of the calls completed
  clock,              \* time.Now().UnixNano(), in ticks
  pubsub              \* the PubSub registry: nextID and channel -> subscriber ids

lowVars == <<shard, heap, itemPool, task, chan, hist, clock, pubsub>>

NewPubSub == [channels |-> <<>>, nextID |-> 1]

vars == <<txVars, lowVars>>

(* ---------------------------------------------------------------------- *)
(* RESP writer: one token per Write* call                                  *)
(* ---------------------------------------------------------------------- *)
WriteSimpleString(s) == <<"+", s>>
WriteError(s) == <<"-", s>>
WriteInteger(i) == <<":", ToString(i)>>
WriteBulkString(s) == <<"$", s>>
WriteNull == <<"$", "-1">>
WriteArray(n) == <<"*", ToString(n)>>
WritePush(n) == <<">", ToString(n)>>

\* the frames the wire protocol defines for the two nulls
NullBulkFrame == <<"$", "-1">>
NullArrayFrame == <<"*", "-1">>

(* ---------------------------------------------------------------------- *)
(* Items and commands                                                      *)
(* ---------------------------------------------------------------------- *)
TypeString == 0
TypeList == 1

StringItem(v) == [Type |-> TypeString, Str |-> v, List |-> <<>>, Waiters |-> <<>>]
ListItem(l) == [Type |-> TypeList, Str |-> "", List |-> l, Waiters |-> <<>>]

\* a command read from the connection; "" stands for an argument not given
Cmd(n, k, v) == [name |-> n, key |-> k, val |-> v]

\* the world a store call runs in: the store, the registry and what
\* Client.Invalidate writes
World == [store |-> store, it |-> invalidationTable, ck |-> clientKeys,
          dirty |-> dirty, go |-> goroutines, tracking |-> tracking]

Restrict(f, S) == [x \in S |-> f[x]]
Put(f, k, v) == [x \in DOMAIN f \cup {k} |-> IF x = k THEN v ELSE f[x]]

(* ---------------------------------------------------------------------- *)
(* Observer registry                                                       *)
(* ---------------------------------------------------------------------- *)
\* Client.Invalidate: the dirty flag under txMu, then one goroutine
Invalidate(w, o, key) ==
  [w EXCEPT !.dirty[o] = IF key \in watching[o] THEN TRUE ELSE @,
            !.go[o][key] = @ + 1]

RECURSIVE NotifyEach(_, _, _)
NotifyEach(w, observers, key) ==
  IF observers = {} THEN w
  ELSE LET o == CHOOSE x \in observers : TRUE
           w1 == Invalidate(w, o, key)
           w2 == IF o \in DOMAIN w1.ck
                 THEN [w1 EXCEPT !.ck[o] = @ \ {key}]
                 ELSE w1
       IN NotifyEach(w2, observers \ {o}, key)

NotifyObservers(w, key) ==
  IF key \notin DOMAIN w.it THEN w
  ELSE LET w1 == NotifyEach(w, w.it[key], key)
       IN [w1 EXCEPT !.it = Restrict(w1.it, DOMAIN w1.it \ {key})]

TrackOneIndex(w, key, o) ==
  LET it1 == IF key \in DOMAIN w.it THEN w.it ELSE Put(w.it, key, {})
  IN [w EXCEPT !.it = [it1 EXCEPT ![key] = @ \cup {o}]]

\* Track: o joins the observer set of the key and the key joins o's reverse
\* entry, each made when missing
Track(w, key, o) ==
  LET it1 == IF key \in DOMAIN w.it THEN w.it ELSE Put(w.it, key, {})
      ck1 == IF o \in DOMAIN w.ck THEN w.ck ELSE Put(w.ck, o, {})
  IN [w EXCEPT !.it = [it1 EXCEPT ![key] = @ \cup {o}],
               !.ck = [ck1 EXCEPT ![o] = @ \cup {key}]]

\* RegisterObserver: an empty reverse entry for o when it has none
RegisterObserver(w, o) ==
  IF o \in DOMAIN w.ck THEN w ELSE [w EXCEPT !.ck = Put(w.ck, o, {})]

UnregisterKeepsTable(w, o) ==
  [w EXCEPT !.ck = Restrict(w.ck, DOMAIN w.ck \ {o})]

\* UnregisterObserver: o leaves the observer set of every key of its reverse
\* entry, an observer set left empty is deleted, then the reverse entry
UnregisterObserver(w, o) ==
  IF o \notin DOMAIN w.ck THEN w
  ELSE LET it1 == [k \in DOMAIN w.it |-> IF k \in w.ck[o] THEN w.it[k] \ {o} ELSE w.it[k]]
           gone == {k \in DOMAIN it1 : k \in w.ck[o] /\ it1[k] = {}}
       IN [w EXCEPT !.it = Restrict(it1, DOMAIN it1 \ gone),
                    !.ck = Restrict(w.ck, DOMAIN w.ck \ {o})]

(* ---------------------------------------------------------------------- *)
(* Store API, one call per operator                                        *)
(* ---------------------------------------------------------------------- *)
Exists(w, key) == key \in DOMAIN w.store

\* Set: Store, then NotifyObservers
DbSet(w, key, v) ==
  NotifyObservers([w EXCEPT !.store = Put(w.store, key, StringItem(v))], key)

\* Del: LoadAndDelete, NotifyObservers when something was deleted
DbDel(w, key) ==
  IF key \in DOMAIN w.store
  THEN NotifyObservers([w EXCEPT !.store = Restrict(w.store, DOMAIN w.store \ {key})], key)
  ELSE w

\* GetSet: Swap; NotifyObservers only when no previous value was loaded
DbGetSet(w, key, v) ==
  LET w1 == [w EXCEPT !.store = Put(w.store, key, StringItem(v))]
  IN IF key \in DOMAIN w.store THEN w1 ELSE NotifyObservers(w1, key)

\* RPush on a key without waiters: getOrCreateListItem notifies only when it
\* creates the Item, Item.rpush appends
RPushResult(w, key, v) ==
  IF key \in DOMAIN w.store
  THEN IF w.store[key].Type # TypeList
       THEN [w |-> w, err |-> TRUE, size |-> 0]
       ELSE LET l == Append(w.store[key].List, v)
            IN [w |-> [w EXCEPT !.store[key] = ListItem(l)], err |-> FALSE, size |-> Len(l)]
  ELSE [w |-> [NotifyObservers([w EXCEPT !.store = Put(w.store, key, ListItem(<<>>))], key)
                 EXCEPT !.store[key] = ListItem(<<v>>)],
        err |-> FALSE, size |-> 1]

\* LPop on a key without waiters: Item.pop, then Del when the list is empty
LPopResult(w, key) ==
  IF key \notin DOMAIN w.store THEN [w |-> w, val |-> "", ok |-> FALSE]
  ELSE IF w.store[key].Type # TypeList THEN [w |-> w, val |-> "", ok |-> FALSE]
  ELSE IF w.store[key].List = <<>> THEN [w |-> w, val |-> "", ok |-> FALSE]
  ELSE LET l == Tail(w.store[key].List)
           w1 == [w EXCEPT !.store[key] = ListItem(l)]
       IN [w |-> IF l = <<>> THEN DbDel(w1, key) ELSE w1,
           val |-> Head(w.store[key].List), ok |-> TRUE]

\* LLen
LLen(w, key) ==
  IF key \in DOMAIN w.store /\ w.store[key].Type = TypeList
  THEN Len(w.store[key].List)
  ELSE 0

(* ---------------------------------------------------------------------- *)
(* Command dispatcher: the "Normal Execution" switch of Client.execute     *)
(* ---------------------------------------------------------------------- *)
TrackIf(w, c, key) == IF w.tracking[c] THEN Track(w, key, c) ELSE w

\* EXISTS key [key]: the count of the arguments that are keys of the store;
\* the second argument, when given, travels in the command's val
ExistsCount(w, cmd) ==
  (IF Exists(w, cmd.key) THEN 1 ELSE 0)
    + (IF cmd.val # "" /\ Exists(w, cmd.val) THEN 1 ELSE 0)

\* int64(ttl.Seconds()) of d.TTL(key), which on a key without expiry is the
\* time.Duration -1 and on an absent key the time.Duration -2: a fraction of a
\* second either way, which the conversion truncates to 0
TTLSeconds(w, key) == 0

RunCommand(w, c, cmd) ==
  CASE cmd.name = "SET" ->
         IF cmd.val = ""
         THEN [w |-> w,
               reply |-> <<WriteError("ERR wrong number of arguments for 'set' command")>>]
         ELSE [w |-> DbSet(w, cmd.key, cmd.val), reply |-> <<WriteSimpleString("OK")>>]
    [] cmd.name = "GET" ->
         LET w1 == TrackIf(w, c, cmd.key)
         IN [w |-> w1,
             reply |-> IF ~Exists(w1, cmd.key) THEN <<WriteNull>>
                       ELSE IF w1.store[cmd.key].Type = TypeString
                            THEN <<WriteBulkString(w1.store[cmd.key].Str)>>
                            ELSE <<WriteBulkString("%v")>>]
    [] cmd.name = "DEL" ->
         IF Exists(w, cmd.key)
         THEN [w |-> DbDel(w, cmd.key), reply |-> <<WriteInteger(1)>>]
         ELSE [w |-> w, reply |-> <<WriteInteger(0)>>]
    [] cmd.name = "EXISTS" ->
         LET w1 == TrackIf(w, c, cmd.key)
             w2 == IF cmd.val = "" THEN w1 ELSE TrackIf(w1, c, cmd.val)
         IN [w |-> w2, reply |-> <<WriteInteger(ExistsCount(w2, cmd))>>]
    [] cmd.name = "TTL" ->
         LET w1 == TrackIf(w, c, cmd.key)
         IN [w |-> w1, reply |-> <<WriteInteger(TTLSeconds(w1, cmd.key))>>]
    [] cmd.name = "TRACKING" ->
         [w |-> [w EXCEPT !.tracking[c] = (cmd.val = "ON")],
          reply |-> <<WriteSimpleString("OK")>>]
    [] cmd.name = "RPUSH" ->
         LET r == RPushResult(w, cmd.key, cmd.val)
         IN [w |-> r.w,
             reply |-> IF r.err THEN <<WriteError("WRONGTYPE")>>
                       ELSE <<WriteInteger(r.size)>>]
    [] cmd.name = "LLEN" ->
         LET w1 == TrackIf(w, c, cmd.key)
         IN [w |-> w1, reply |-> <<WriteInteger(LLen(w1, cmd.key))>>]
    [] OTHER ->
         [w |-> w, reply |-> <<WriteError("ERR unknown command '" \o cmd.name \o "'")>>]

\* the keys a command mutates when run in w
MutatedKeys(w, cmd) ==
  CASE cmd.name = "SET" -> IF cmd.val = "" THEN {} ELSE {cmd.key}
    [] cmd.name = "DEL" -> IF Exists(w, cmd.key) THEN {cmd.key} ELSE {}
    [] cmd.name = "RPUSH" -> IF RPushResult(w, cmd.key, cmd.val).err THEN {} ELSE {cmd.key}
    [] OTHER -> {}

\* history: watched keys mutated by actor a
Touch(a, M) ==
  [c \in Clients |->
     [other |-> touched[c].other \cup (IF c # a THEN M \cap watching[c] ELSE {}),
      any |-> touched[c].any \cup (M \cap watching[c])]]

NoTouch == [other |-> {}, any |-> {}]

SetWorld(w) ==
  /\ store' = w.store
  /\ invalidationTable' = w.it
  /\ clientKeys' = w.ck
  /\ dirty' = w.dirty
  /\ goroutines' = w.go
  /\ tracking' = w.tracking

worldVars == <<store, invalidationTable, clientKeys, dirty, goroutines, tracking>>

(* ---------------------------------------------------------------------- *)
(* EXEC bookkeeping                                                        *)
(* ---------------------------------------------------------------------- *)
IdleExec == [mode |-> "idle", queue |-> <<>>, idx |-> 0, res |-> <<>>, ran |-> <<>>,
             hitOther |-> FALSE, hitAny |-> FALSE]

\* the commands EXEC lets run in parallel (single key, known at queue time)
ParallelSafe == {"SET", "GET", "INCR", "DECR", "LPUSH", "RPUSH", "LPOP", "RPOP", "LLEN",
                 "LRANGE", "HSET", "HGET", "HDEL", "HLEN", "HGETALL", "SADD", "SREM",
                 "SMEMBERS", "SISMEMBER", "ZADD", "ZRANGE", "SETBIT", "GETBIT",
                 "BITCOUNT", "XADD", "TTL", "EXISTS"}

CanParallelize(queue) ==
  \A i \in 1..Len(queue) : queue[i].name \in ParallelSafe /\ queue[i].key # ""

\* GetShardIndex: hash(key) & mask under the seed drawn by New; the seeds of
\* the model put the two keys in one shard or in two
Seeds == {"same", "apart"}
GetShardIndex(key) == IF seed = "apart" /\ key # "k1" THEN 1 ELSE 0

SeqFinishedEarly(idx, queue) == idx >= Len(queue)

\* the sequential loop "for _, q := range queue" is over
SeqFinished(idx, queue) == idx > Len(queue)

RECURSIVE ConcatLastFirst(_)
ConcatLastFirst(ss) == IF ss = <<>> THEN <<>> ELSE ConcatLastFirst(Tail(ss)) \o Head(ss)

RECURSIVE Concat(_)
Concat(ss) == IF ss = <<>> THEN <<>> ELSE Head(ss) \o Concat(Tail(ss))

(* ---------------------------------------------------------------------- *)
(* Connection handler: one action per command read                         *)
(* ---------------------------------------------------------------------- *)
Ready(c) == exec[c].mode = "idle" /\ used < MaxCmds

Read(c) == used' = used + 1 /\ UNCHANGED seed

Plain(c) ==
  /\ exec' = [exec EXCEPT ![c] = IdleExec]
  /\ last' = [last EXCEPT ![c] = "none"]

Watch(c, k) ==
  /\ Ready(c) /\ Read(c) /\ Plain(c)
  /\ IF inTx[c]
     THEN /\ out' = [out EXCEPT ![c] = <<WriteError("ERR WATCH inside MULTI is not allowed")>>]
          /\ UNCHANGED watching
     ELSE /\ watching' = [watching EXCEPT ![c] = @ \cup {k}]
          /\ out' = [out EXCEPT ![c] = <<WriteSimpleString("OK")>>]
  /\ UNCHANGED <<worldVars, inTx, txQueue, touched>>
  /\ UNCHANGED lowVars

Unwatch(c) ==
  /\ Ready(c) /\ Read(c) /\ Plain(c)
  /\ watching' = [watching EXCEPT ![c] = {}]
  /\ dirty' = [dirty EXCEPT ![c] = FALSE]
  /\ touched' = [touched EXCEPT ![c] = NoTouch]
  /\ out' = [out EXCEPT ![c] = <<WriteSimpleString("OK")>>]
  /\ UNCHANGED <<store, invalidationTable, clientKeys, goroutines, tracking, inTx, txQueue>>
  /\ UNCHANGED lowVars

MultiNestedRestarts(c) ==
  /\ Ready(c) /\ Read(c) /\ Plain(c)
  /\ inTx' = [inTx EXCEPT ![c] = TRUE]
  /\ txQueue' = [txQueue EXCEPT ![c] = <<>>]
  /\ out' = [out EXCEPT ![c] = IF inTx[c]
                                 THEN <<WriteError("ERR MULTI calls can not be nested")>>
                                 ELSE <<WriteSimpleString("OK")>>]
  /\ UNCHANGED <<worldVars, watching, touched>>
  /\ UNCHANGED lowVars

Multi(c) ==
  /\ Ready(c) /\ Read(c) /\ Plain(c)
  /\ IF inTx[c]
     THEN /\ out' = [out EXCEPT ![c] = <<WriteError("ERR MULTI calls can not be nested")>>]
          /\ UNCHANGED <<inTx, txQueue>>
     ELSE /\ inTx' = [inTx EXCEPT ![c] = TRUE]
          /\ txQueue' = [txQueue EXCEPT ![c] = <<>>]
          /\ out' = [out EXCEPT ![c] = <<WriteSimpleString("OK")>>]
  /\ UNCHANGED <<worldVars, watching, touched>>
  /\ UNCHANGED lowVars

Discard(c) ==
  /\ Ready(c) /\ Read(c)
  /\ last' = [last EXCEPT ![c] = IF inTx[c] THEN "discarded" ELSE "none"]
  /\ exec' = [exec EXCEPT ![c] = IdleExec]
  /\ IF ~inTx[c]
     THEN /\ out' = [out EXCEPT ![c] = <<WriteError("ERR DISCARD without MULTI")>>]
          /\ UNCHANGED <<inTx, txQueue, watching, dirty, touched>>
     ELSE /\ inTx' = [inTx EXCEPT ![c] = FALSE]
          /\ txQueue' = [txQueue EXCEPT ![c] = <<>>]
          /\ watching' = [watching EXCEPT ![c] = {}]
          /\ dirty' = [dirty EXCEPT ![c] = FALSE]
          /\ touched' = [touched EXCEPT ![c] = NoTouch]
          /\ out' = [out EXCEPT ![c] = <<WriteSimpleString("OK")>>]
  /\ UNCHANGED <<store, invalidationTable, clientKeys, goroutines, tracking>>
  /\ UNCHANGED lowVars

NormalNeverQueues(c, cmd) ==
  /\ Ready(c) /\ Read(c) /\ Plain(c)
  /\ LET r == RunCommand(World, c, cmd)
     IN /\ SetWorld(r.w)
        /\ out' = [out EXCEPT ![c] = r.reply]
        /\ touched' = Touch(c, MutatedKeys(World, cmd))
        /\ UNCHANGED txQueue
  /\ UNCHANGED <<inTx, watching>>
  /\ UNCHANGED lowVars

\* "Queue if inside Transaction", else "Normal Execution"
Normal(c, cmd) ==
  /\ Ready(c) /\ Read(c)
  /\ IF inTx[c]
     THEN /\ Len(txQueue[c]) < MaxQueue
          /\ txQueue' = [txQueue EXCEPT ![c] = Append(@, cmd)]
          /\ out' = [out EXCEPT ![c] = <<WriteSimpleString("QUEUED")>>]
          /\ UNCHANGED <<worldVars, touched>>
     ELSE LET r == RunCommand(World, c, cmd)
          IN /\ SetWorld(r.w)
             /\ out' = [out EXCEPT ![c] = r.reply]
             /\ touched' = Touch(c, MutatedKeys(World, cmd))
             /\ UNCHANGED txQueue
  /\ Plain(c)
  /\ UNCHANGED <<inTx, watching>>
  /\ UNCHANGED lowVars

Zeros(n) == [i \in 1..n |-> 0]
Empties(n) == [i \in 1..n |-> <<>>]

ClearTxKeepsWatching(c) ==
  /\ inTx' = [inTx EXCEPT ![c] = FALSE]
  /\ txQueue' = [txQueue EXCEPT ![c] = <<>>]
  /\ touched' = [touched EXCEPT ![c] = NoTouch]
  /\ UNCHANGED watching

ClearTx(c) ==
  /\ inTx' = [inTx EXCEPT ![c] = FALSE]
  /\ txQueue' = [txQueue EXCEPT ![c] = <<>>]
  /\ watching' = [watching EXCEPT ![c] = {}]
  /\ touched' = [touched EXCEPT ![c] = NoTouch]

\* EXEC is read: the error, the abort, or the start of the queue's execution
Exec(c) ==
  /\ Ready(c) /\ Read(c)
  /\ IF ~inTx[c]
     THEN /\ out' = [out EXCEPT ![c] = <<WriteError("ERR EXEC without MULTI")>>]
          /\ exec' = [exec EXCEPT ![c] = IdleExec]
          /\ last' = [last EXCEPT ![c] = "error"]
          /\ UNCHANGED <<inTx, txQueue, watching, dirty, touched>>
     ELSE LET e == [IdleExec EXCEPT !.queue = txQueue[c],
                                    !.ran = Zeros(Len(txQueue[c])),
                                    !.res = Empties(Len(txQueue[c])),
                                    !.hitOther = touched[c].other # {},
                                    !.hitAny = touched[c].any # {}]
          IN /\ ClearTx(c)
             /\ dirty' = [dirty EXCEPT ![c] = FALSE]
             /\ IF dirty[c]
                THEN /\ out' = [out EXCEPT ![c] = <<WriteNull>>]
                     /\ exec' = [exec EXCEPT ![c] = e]
                     /\ last' = [last EXCEPT ![c] = "null"]
                ELSE /\ out' = [out EXCEPT ![c] = <<WriteArray(Len(txQueue[c]))>>]
                     /\ exec' = [exec EXCEPT ![c] =
                                   [e EXCEPT !.mode = IF CanParallelize(txQueue[c])
                                                      THEN "par" ELSE "seq",
                                             !.idx = 1]]
                     /\ last' = [last EXCEPT ![c] = "running"]
  /\ UNCHANGED <<store, invalidationTable, clientKeys, goroutines, tracking>>
  /\ UNCHANGED lowVars

\* Sequential Fallback: c.execute(q[0], q[1:], c.writer, &c.mu) for the next q
ExecSeqStep(c) ==
  /\ exec[c].mode = "seq"
  /\ LET e == exec[c]
         cmd == e.queue[e.idx]
         r == RunCommand(World, c, cmd)
         fin == SeqFinished(e.idx + 1, e.queue)
     IN /\ SetWorld(r.w)
        /\ out' = [out EXCEPT ![c] = @ \o r.reply]
        /\ touched' = Touch(c, MutatedKeys(World, cmd))
        /\ exec' = [exec EXCEPT ![c] = [e EXCEPT !.idx = @ + 1,
                                                 !.ran[e.idx] = @ + 1,
                                                 !.queue = IF fin THEN <<>> ELSE @,
                                                 !.res = IF fin THEN <<>> ELSE @,
                                                 !.mode = IF fin THEN "idle" ELSE "seq"]]
        /\ last' = [last EXCEPT ![c] = IF fin THEN "array" ELSE "running"]
  /\ UNCHANGED <<inTx, txQueue, watching, used, seed>>
  /\ UNCHANGED lowVars

\* the indices the goroutine of shard sid has still to run
ShardTodo(e, sid) ==
  {i \in 1..Len(e.queue) : GetShardIndex(e.queue[i].key) = sid /\ e.res[i] = <<>>}

Min(S) == CHOOSE x \in S : \A y \in S : x <= y

\* Parallel Execution: the goroutine of one shard runs its next command into
\* that command's buffer
ExecParStep(c, sid) ==
  /\ exec[c].mode = "par"
  /\ ShardTodo(exec[c], sid) # {}
  /\ LET e == exec[c]
         idx == Min(ShardTodo(e, sid))
         cmd == e.queue[idx]
         r == RunCommand(World, c, cmd)
     IN /\ SetWorld(r.w)
        /\ touched' = Touch(c, MutatedKeys(World, cmd))
        /\ exec' = [exec EXCEPT ![c] = [e EXCEPT !.res[idx] = r.reply,
                                                 !.ran[idx] = @ + 1]]
  /\ UNCHANGED <<inTx, txQueue, watching, out, used, seed, last>>
  /\ UNCHANGED lowVars

\* wg.Wait() returned: the buffers are copied to the connection in queue order
ExecJoin(c) ==
  /\ exec[c].mode = "par"
  /\ \A i \in 1..Len(exec[c].queue) : exec[c].res[i] # <<>>
  /\ out' = [out EXCEPT ![c] = @ \o Concat(exec[c].res)]
  /\ exec' = [exec EXCEPT ![c] = [@ EXCEPT !.mode = "idle", !.queue = <<>>, !.res = <<>>]]
  /\ last' = [last EXCEPT ![c] = "array"]
  /\ UNCHANGED <<worldVars, inTx, txQueue, watching, used, seed, touched>>
  /\ UNCHANGED lowVars

\* the goroutine Invalidate started: the push frame, if tracking is on
PushFrame(key) ==
  <<WritePush(2), WriteBulkString("invalidate"), WriteArray(1), WriteBulkString(key)>>

PushRun(c, k) ==
  /\ goroutines[c][k] > 0
  /\ goroutines' = [goroutines EXCEPT ![c][k] = @ - 1]
  /\ out' = [out EXCEPT ![c] = IF tracking[c] THEN @ \o PushFrame(k) ELSE @]
  /\ UNCHANGED <<store, invalidationTable, clientKeys, tracking, watching, inTx, dirty,
                 txQueue, exec, used, seed, touched, last>>
  /\ UNCHANGED lowVars

(* ---------------------------------------------------------------------- *)
(* SpecTx                                                                  *)
(* ---------------------------------------------------------------------- *)
\* New: an empty shard, no Item allocated, an empty pool, no call in progress
InitLow ==
  /\ shard = 0
  /\ heap = <<>>
  /\ itemPool = {}
  /\ task = <<>>
  /\ chan = <<>>
  /\ hist = <<>>
  /\ clock = 0
  /\ pubsub = NewPubSub

\* Handle: the Client is built and RegisterObserver gives it an empty clientKeys entry
InitConn ==
  /\ store = <<>>
  /\ invalidationTable = <<>>
  /\ clientKeys = [c \in Clients |-> {}]
  /\ tracking = [c \in Clients |-> FALSE]
  /\ watching = [c \in Clients |-> {}]
  /\ inTx = [c \in Clients |-> FALSE]
  /\ dirty = [c \in Clients |-> FALSE]
  /\ txQueue = [c \in Clients |-> <<>>]
  /\ goroutines = [c \in Clients |-> [k \in Keys |-> 0]]
  /\ out = [c \in Clients |-> <<>>]
  /\ exec = [c \in Clients |-> IdleExec]
  /\ used = 0
  /\ touched = [c \in Clients |-> NoTouch]
  /\ last = [c \in Clients |-> "none"]

\* New draws the seed
InitTx == InitConn /\ seed \in Seeds /\ InitLow

TxCmds ==
  {Cmd("SET", k, v) : k \in Keys, v \in Vals}
    \cup {Cmd("GET", k, "") : k \in Keys}
    \cup {Cmd("TRACKING", "", v) : v \in {"ON"}}

NextTx ==
  \/ \E c \in Clients, k \in Keys : Watch(c, k)
  \/ \E c \in Clients : Unwatch(c)
  \/ \E c \in Clients : Multi(c)
  \/ \E c \in Clients : Discard(c)
  \/ \E c \in Clients : Exec(c)
  \/ \E c \in Clients, cmd \in TxCmds : Normal(c, cmd)
  \/ \E c \in Clients : ExecSeqStep(c)
  \/ \E c \in Clients, sid \in {0, 1} : ExecParStep(c, sid)
  \/ \E c \in Clients : ExecJoin(c)
  \/ \E c \in Clients, k \in Keys : PushRun(c, k)

SpecTx == InitTx /\ [][NextTx]_vars

(* ---------------------------------------------------------------------- *)
(* SpecScc: client tracking with the list commands, and direct store calls *)
(* ---------------------------------------------------------------------- *)
SccCmds ==
  {Cmd("TRACKING", "", v) : v \in {"ON", "OFF"}}
    \cup {Cmd("LLEN", k, "") : k \in Keys}
    \cup {Cmd("RPUSH", k, v) : k \in Keys, v \in Vals}
    \cup {Cmd("SET", k, v) : k \in Keys, v \in Vals}
    \cup {Cmd("DEL", k, "") : k \in Keys}

directVars == <<watching, inTx, txQueue, out, exec, seed, last>>

\* the embedding program calls the store API itself
DirectSet(k, v) ==
  /\ used < MaxCmds /\ used' = used + 1
  /\ SetWorld(DbSet(World, k, v))
  /\ touched' = Touch("db", {k})
  /\ UNCHANGED directVars
  /\ UNCHANGED lowVars

DirectGetSet(k, v) ==
  /\ used < MaxCmds /\ used' = used + 1
  /\ SetWorld(DbGetSet(World, k, v))
  /\ touched' = Touch("db", {k})
  /\ UNCHANGED directVars
  /\ UNCHANGED lowVars

DirectLPop(k) ==
  /\ used < MaxCmds /\ used' = used + 1
  /\ LPopResult(World, k).ok
  /\ SetWorld(LPopResult(World, k).w)
  /\ touched' = Touch("db", {k})
  /\ UNCHANGED directVars
  /\ UNCHANGED lowVars

NextScc ==
  \/ \E c \in Clients, cmd \in SccCmds : Normal(c, cmd)
  \/ \E c \in Clients, k \in Keys : PushRun(c, k)
  \/ \E k \in Keys, v \in Vals : DirectSet(k, v)
  \/ \E k \in Keys, v \in Vals : DirectGetSet(k, v)
  \/ \E k \in Keys : DirectLPop(k)

\* no EXEC in this alphabet: the placement of the keys plays no part
InitScc == InitConn /\ seed = "same" /\ InitLow

SpecScc == InitScc /\ [][NextScc]_vars

(* ---------------------------------------------------------------------- *)
(* SpecConn: one connection, with the embedding program writing the store  *)
(* ---------------------------------------------------------------------- *)
NextConn ==
  \/ \E k \in Keys : Watch("c1", k)
  \/ Unwatch("c1")
  \/ Multi("c1")
  \/ Discard("c1")
  \/ Exec("c1")
  \/ \E cmd \in TxCmds : Normal("c1", cmd)
  \/ ExecSeqStep("c1")
  \/ \E sid \in {0, 1} : ExecParStep("c1", sid)
  \/ ExecJoin("c1")
  \/ \E k \in Keys : PushRun("c1", k)
  \/ \E k \in Keys, v \in Vals : DirectSet(k, v)

SpecConn == InitTx /\ [][NextConn]_vars

(* ---------------------------------------------------------------------- *)
(* SpecExec: one connection queueing commands that fail                    *)
(* ---------------------------------------------------------------------- *)
\* SET without a value, RPUSH onto a string and an unknown command fail
ExecCmds ==
  {Cmd("SET", k, v) : k \in Keys, v \in Vals \cup {""}}
    \cup {Cmd("GET", k, "") : k \in Keys}
    \cup {Cmd("RPUSH", "k1", v) : v \in Vals}
    \cup {Cmd("FOO", "", "")}

NextExec ==
  \/ Multi("c1")
  \/ Exec("c1")
  \/ \E cmd \in ExecCmds : Normal("c1", cmd)
  \/ ExecSeqStep("c1")
  \/ \E sid \in {0, 1} : ExecParStep("c1", sid)
  \/ ExecJoin("c1")

SpecExec == InitTx /\ [][NextExec]_vars

(* ---------------------------------------------------------------------- *)
(* SpecPar: one transaction of one connection, no other client active; the *)
(* store New is followed by is drawn at Init and kept in hist              *)
(* ---------------------------------------------------------------------- *)
StartStores == {<<>>, Put(<<>>, "k2", StringItem("v1"))}

ParCmds ==
  {Cmd("SET", k, v) : k \in Keys, v \in Vals}
    \cup {Cmd("GET", k, "") : k \in Keys}
    \cup {Cmd("EXISTS", k, k2) : k \in Keys, k2 \in Keys \cup {""}}
    \cup {Cmd("TTL", k, "") : k \in Keys}
    \cup {Cmd("DEL", k, "") : k \in Keys}

InitPar ==
  /\ hist \in {[start |-> m] : m \in StartStores}
  /\ store = hist.start
  /\ invalidationTable = <<>>
  /\ clientKeys = [c \in Clients |-> {}]
  /\ tracking = [c \in Clients |-> FALSE]
  /\ watching = [c \in Clients |-> {}]
  /\ inTx = [c \in Clients |-> FALSE]
  /\ dirty = [c \in Clients |-> FALSE]
  /\ txQueue = [c \in Clients |-> <<>>]
  /\ goroutines = [c \in Clients |-> [k \in Keys |-> 0]]
  /\ out = [c \in Clients |-> <<>>]
  /\ exec = [c \in Clients |-> IdleExec]
  /\ used = 0
  /\ touched = [c \in Clients |-> NoTouch]
  /\ last = [c \in Clients |-> "none"]
  /\ seed \in Seeds
  /\ shard = 0
  /\ heap = <<>>
  /\ itemPool = {}
  /\ task = <<>>
  /\ chan = <<>>
  /\ clock = 0
  /\ pubsub = NewPubSub

NextPar ==
  \/ used = 0 /\ Multi("c1")
  \/ \E cmd \in ParCmds : inTx["c1"] /\ Normal("c1", cmd)
  \/ inTx["c1"] /\ Exec("c1")
  \/ ExecSeqStep("c1")
  \/ \E sid \in {0, 1} : ExecParStep("c1", sid)
  \/ ExecJoin("c1")

SpecPar == InitPar /\ [][NextPar]_vars

(* ---------------------------------------------------------------------- *)
(* SpecClose: connections on one key, closed by their peers                *)
(* ---------------------------------------------------------------------- *)
\* Handle: reader.Read fails on the closed stream, the loop returns and the
\* deferred UnregisterObserver runs; the Client and its queue are dropped
Close(c) ==
  /\ exec[c].mode = "idle"
  /\ exec' = [exec EXCEPT ![c] = [IdleExec EXCEPT !.mode = "closed"]]
  /\ SetWorld(UnregisterObserver(World, c))
  /\ UNCHANGED <<watching, inTx, txQueue, out, used, seed, touched, last>>
  /\ UNCHANGED lowVars

CloseCmds ==
  {Cmd("SET", "k1", v) : v \in Vals}
    \cup {Cmd("GET", "k1", ""), Cmd("TRACKING", "", "ON")}

NextClose ==
  \/ \E c \in Clients : Close(c)
  \/ \E c \in Clients : Multi(c)
  \/ \E c \in Clients : Exec(c)
  \/ \E c \in Clients, cmd \in CloseCmds : Normal(c, cmd)
  \/ \E c \in Clients : ExecSeqStep(c)
  \/ \E c \in Clients, sid \in {0, 1} : ExecParStep(c, sid)
  \/ \E c \in Clients : ExecJoin(c)
  \/ \E c \in Clients, k \in Keys : PushRun(c, k)

SpecClose == InitTx /\ [][NextClose]_vars

(* ---------------------------------------------------------------------- *)
(* Properties of the connection-level specifications                       *)
(* ---------------------------------------------------------------------- *)
\* Reader.readArray / readBulk: a length of -1 reads as a null value
IsNull(tok) == tok \in {NullBulkFrame, NullArrayFrame}

\* the reply tokens of a connection's output, the push frames left out
RECURSIVE StripPush(_)
StripPush(toks) ==
  IF toks = <<>> THEN <<>>
  ELSE IF Head(toks) = WritePush(2) THEN StripPush(SubSeq(toks, 5, Len(toks)))
  ELSE <<Head(toks)>> \o StripPush(Tail(toks))

Tracked(k) == IF k \in DOMAIN invalidationTable THEN invalidationTable[k] ELSE {}
TrackedNext(k) == IF k \in DOMAIN invalidationTable' THEN invalidationTable'[k] ELSE {}

\* this step changed what key k maps to
KeyMutated(k) ==
  \/ (k \in DOMAIN store) # (k \in DOMAIN store')
  \/ k \in DOMAIN store /\ k \in DOMAIN store' /\ store[k] # store'[k]

\* C1: a watched key mutated by another client (or a direct store call)
\* between WATCH and EXEC sets the dirty flag, and EXEC then runs nothing and
\* replies null; with no watched key mutated EXEC runs the queue and replies
\* with an array.
C1_WatchedMutationAborts ==
  \A c \in Clients :
    /\ touched[c].other # {} => dirty[c]
    /\ last[c] \in {"running", "array"} => ~exec[c].hitOther
    /\ last[c] = "null" => exec[c].hitAny

C3_ExecIsolated ==
  [][\A c \in Clients :
       ( /\ exec[c].mode # "idle"
         /\ \E i \in DOMAIN exec[c].ran : exec[c].ran[i] > 0
         /\ \E i \in DOMAIN exec[c].ran : exec[c].ran[i] = 0
         /\ exec'[c] = exec[c] )
       => store' = store]_vars

\* C4: an EXEC aborted by the dirty flag writes the null array frame, which
\* is not the null bulk frame, and the transaction state is cleared with it.
C4_AbortWritesNullArray ==
  \A c \in Clients :
    last[c] = "null" =>
      /\ StripPush(out[c])[1] = NullArrayFrame
      /\ NullArrayFrame # NullBulkFrame
      /\ ~inTx[c] /\ txQueue[c] = <<>> /\ watching[c] = {} /\ ~dirty[c]

\* C5: a step that mutates key k calls Invalidate(k) exactly once on every
\* observer tracked on k before the step, and none of them is tracked on k
\* after it.
C5_MutationNotifiesOnce ==
  [][\A k \in Keys : KeyMutated(k) =>
       \A o \in Tracked(k) :
         /\ goroutines'[o][k] = goroutines[o][k] + 1
         /\ o \notin TrackedNext(k)]_vars

\* C6: a mutation of key k starts exactly one push for every connection that
\* has tracking on and has read k, and a connection with tracking off is
\* written no push frame.
C6_TrackedReaderGetsPush ==
  [][/\ \A c \in Clients, k \in Keys :
          (tracking[c] /\ c \in Tracked(k) /\ KeyMutated(k))
            => goroutines'[c][k] = goroutines[c][k] + 1
     /\ \A c \in Clients :
          (~tracking[c] /\ ~tracking'[c]) => StripPush(out'[c]) = out'[c]]_vars

(* ---------------------------------------------------------------------- *)
(* SpecIncr: IncrBy(key, 1) called from several goroutines                 *)
(* ---------------------------------------------------------------------- *)
IncrTasks == {"t1", "t2", "t3"}
\* calls of INCR by one task
MaxIncr == 1
\* Items allocated
MaxItems == 4

IncrKey == "k1"

\* Item.reset
ResetItem == [Type |-> 0, Str |-> "", List |-> <<>>, Waiters |-> <<>>]

\* strconv.FormatInt(i, 10) and strconv.ParseInt(s, 10, 64) on the counter's range
FormatInt(i) == ToString(i)
IntRange == 0..(Cardinality(IncrTasks) * (MaxIncr + 1))
ParseOk(s) == \E i \in IntRange : ToString(i) = s
ParseInt(s) == CHOOSE i \in IntRange : ToString(i) = s

\* itemPool.Get(): an Item that was Put, or a new one
PoolGet ==
  itemPool \cup (IF Cardinality(DOMAIN heap) < MaxItems
                 THEN {Cardinality(DOMAIN heap) + 1} ELSE {})

CompareAndSwapBlind(cur, old) == TRUE

\* shard.CompareAndSwap(key, old, new) swaps when the map holds the pointer old
CompareAndSwap(cur, old) == cur = old

\* shard.LoadOrStore(key, new) stores when the map holds nothing for the key
LoadOrStoreStores(cur) == cur = 0

IdleIncr == [pc |-> "idle", calls |-> 0, rawVal |-> 0, loaded |-> FALSE,
             current |-> 0, newItem |-> 0, ret |-> 0]

\* IncrBy is entered
IncrBy(t) ==
  /\ task[t].pc = "idle"
  /\ task[t].calls < MaxIncr
  /\ task' = [task EXCEPT ![t] = [@ EXCEPT !.pc = "load", !.calls = @ + 1]]
  /\ UNCHANGED <<txVars, shard, heap, itemPool, chan, hist>>
  /\ UNCHANGED <<clock, pubsub>>

\* rawVal, loaded := shard.Load(key), and the parse of the loaded Item
IncrLoad(t) ==
  /\ task[t].pc = "load"
  /\ IF shard # 0 /\ (heap[shard].Type # TypeString \/ ~ParseOk(heap[shard].Str))
     THEN task' = [task EXCEPT ![t] = [@ EXCEPT !.pc = "idle", !.ret = -1]]
     ELSE task' = [task EXCEPT ![t] =
                     [@ EXCEPT !.pc = "alloc", !.rawVal = shard, !.loaded = (shard # 0),
                               !.current = IF shard # 0 THEN ParseInt(heap[shard].Str)
                                           ELSE 0]]
  /\ UNCHANGED <<txVars, shard, heap, itemPool, chan, hist>>
  /\ UNCHANGED <<clock, pubsub>>

\* newItem := itemPool.Get(); reset; Type, Str of the new value
IncrAlloc(t) ==
  /\ task[t].pc = "alloc"
  /\ \E p \in PoolGet :
       /\ heap' = Put(heap, p, StringItem(FormatInt(task[t].current + 1)))
       /\ itemPool' = itemPool \ {p}
       /\ task' = [task EXCEPT ![t] = [@ EXCEPT !.pc = "swap", !.newItem = p]]
  /\ UNCHANGED <<txVars, shard, chan, hist>>
  /\ UNCHANGED <<clock, pubsub>>

\* CompareAndSwap when a value was loaded, LoadOrStore when not; on success
\* NotifyObservers and the return, on failure the new Item goes back to the
\* pool and the loop continues
IncrSwap(t) ==
  /\ task[t].pc = "swap"
  /\ LET me == task[t]
         success == IF me.loaded THEN CompareAndSwap(shard, me.rawVal)
                    ELSE LoadOrStoreStores(shard)
     IN IF success
        THEN /\ shard' = me.newItem
             /\ SetWorld(NotifyObservers(World, IncrKey))
             /\ task' = [task EXCEPT ![t] = [@ EXCEPT !.pc = "idle",
                                                      !.ret = me.current + 1]]
             /\ hist' = [hist EXCEPT !.rets = Append(@, me.current + 1)]
             /\ UNCHANGED <<heap, itemPool>>
        ELSE /\ heap' = [heap EXCEPT ![me.newItem] = ResetItem]
             /\ itemPool' = itemPool \cup {me.newItem}
             /\ task' = [task EXCEPT ![t] = [@ EXCEPT !.pc = "load"]]
             /\ hist' = [hist EXCEPT !.retried = TRUE]
             /\ UNCHANGED <<shard, worldVars>>
  /\ UNCHANGED <<watching, inTx, txQueue, out, exec, used, seed, touched, last, chan>>
  /\ UNCHANGED <<clock, pubsub>>

InitIncr ==
  /\ InitConn
  /\ seed = "same"
  /\ shard = 0
  /\ heap = <<>>
  /\ itemPool = {}
  /\ task = [t \in IncrTasks |-> IdleIncr]
  /\ chan = <<>>
  /\ hist = [rets |-> <<>>, retried |-> FALSE]
  /\ clock = 0
  /\ pubsub = NewPubSub

NextIncr ==
  \/ \E t \in IncrTasks : IncrBy(t)
  \/ \E t \in IncrTasks : IncrLoad(t)
  \/ \E t \in IncrTasks : IncrAlloc(t)
  \/ \E t \in IncrTasks : IncrSwap(t)

SpecIncr == InitIncr /\ [][NextIncr]_vars

RECURSIVE SumCalls(_)
SumCalls(T) ==
  IF T = {} THEN 0
  ELSE LET t == CHOOSE x \in T : TRUE IN task[t].calls + SumCalls(T \ {t})

\* C7: the calls of INCR on a fresh key return 1, 2, 3, ... in the order they
\* complete, each value once, and when no call is in progress the counter
\* holds the number of calls made.
C7_IncrCountsEveryCall ==
  /\ \A i \in 1..Len(hist.rets) : hist.rets[i] = i
  /\ (\A t \in IncrTasks : task[t].pc = "idle") =>
       /\ Len(hist.rets) = SumCalls(IncrTasks)
       /\ IF Len(hist.rets) = 0 THEN shard = 0
          ELSE shard # 0 /\ heap[shard].Str = FormatInt(Len(hist.rets))

\* C7 witness: every task has made its calls, some swap failed and was
\* retried, and the counter holds the number of tasks
C7_Witness ==
  /\ \A t \in IncrTasks : task[t].pc = "idle" /\ task[t].calls = MaxIncr
  /\ hist.retried
  /\ shard # 0 /\ heap[shard].Str = FormatInt(Cardinality(IncrTasks) * MaxIncr)

(* ---------------------------------------------------------------------- *)
(* SpecList: LPUSH, RPUSH, LPOP, RPOP, BLPOP and BRPOP on one key, called  *)
(* from several goroutines                                                 *)
(* ---------------------------------------------------------------------- *)
ListTasks == {"t1", "t2", "t3"}
\* calls made by all tasks together
MaxOps == 3
\* values pushed by all calls together
MaxVals == 3
\* values of one push
MaxPush == 2
\* make(chan string, 1)
ChanCap == 1

ListKey == "k1"

\* LPush / RPush: the i-th value pushed, an integer, is stored as fmt.Sprintf("%v", i)
Value(i) == ToString(i)

Range(l) == {l[i] : i \in 1..Len(l)}

Reverse(l) == [i \in 1..Len(l) |-> l[Len(l) + 1 - i]]

\* select { case ch <- val: default: }
NonBlockingSend(buf, v) == IF Len(buf) < ChanCap THEN Append(buf, v) ELSE buf

\* "for len(i.Waiters) > 0 && len(values) > 0": the oldest waiter is taken off
\* the queue and sent the next value
RECURSIVE SatisfyWaiters(_)
SatisfyWaiters(st) ==
  IF Len(st.Waiters) > 0 /\ Len(st.values) > 0
  THEN SatisfyWaiters([Waiters |-> Tail(st.Waiters),
                       values |-> Tail(st.values),
                       chan |-> [st.chan EXCEPT ![Head(st.Waiters)] =
                                   NonBlockingSend(@, Head(st.values))]])
  ELSE st

\* the loops "for _, v := range values" of rpush (at the tail) and of lpush
\* (each value in turn at the head)
PlaceValues(list, values, left) ==
  IF left THEN Reverse(values) \o list ELSE list \o values

ItemPushAll(it, values, left, chans) ==
  LET st == SatisfyWaiters([Waiters |-> it.Waiters, values |-> values, chan |-> chans])
  IN [item |-> [it EXCEPT !.Waiters = st.Waiters,
                          !.List = PlaceValues(it.List, values, left)],
      chan |-> st.chan,
      rest |-> st.values]

\* Item.lpush / Item.rpush, the whole section under i.Mu
ItemPush(it, values, left, chans) ==
  LET st == SatisfyWaiters([Waiters |-> it.Waiters, values |-> values, chan |-> chans])
  IN [item |-> [it EXCEPT !.Waiters = st.Waiters,
                          !.List = PlaceValues(it.List, st.values, left)],
      chan |-> st.chan,
      rest |-> st.values]

ListAfterPopKept(list, left) == list

\* Item.pop: the value taken and the list left
PoppedValue(list, left) == IF left THEN Head(list) ELSE list[Len(list)]
ListAfterPop(list, left) == IF left THEN Tail(list) ELSE SubSeq(list, 1, Len(list) - 1)

RemoveWaiterNone(ws, ch) == ws

\* "for i, c := range item.Waiters { if c == ch ...": the first occurrence is removed
RECURSIVE RemoveWaiter(_, _)
RemoveWaiter(ws, ch) ==
  IF ws = <<>> THEN <<>>
  ELSE IF Head(ws) = ch THEN Tail(ws)
  ELSE <<Head(ws)>> \o RemoveWaiter(Tail(ws), ch)

IdleList == [pc |-> "idle", op |-> "", left |-> FALSE, block |-> FALSE, second |-> FALSE,
             values |-> <<>>, item |-> 0, val |-> "", res |-> "none", size |-> 0]

listFrame == <<watching, inTx, txQueue, out, exec, used, seed, touched, last>>

\* the call returns: its result stays in the task's record until its next call
Return(t, res, val, size) ==
  [task EXCEPT ![t] = [IdleList EXCEPT !.res = res, !.val = val, !.size = size]]

\* history: a pop or a blocking pop returned value v
Took(t, v, byChan) ==
  [hist EXCEPT !.dup = @ \/ v \in hist.taken,
               !.taken = @ \cup {v},
               !.byBlock = IF task[t].block THEN @ \cup {v} ELSE @,
               !.byChan = IF byChan THEN @ \cup {v} ELSE @]

\* LPop / RPop found nothing: a nil result, or blockPop goes on to register
NilResult(t) ==
  IF task[t].block /\ ~task[t].second
  THEN task' = [task EXCEPT ![t] = [@ EXCEPT !.pc = "getOrCreate"]]
  ELSE task' = Return(t, "nil", "", 0)

\* LPush / RPush is called with n new values
PushCall(t, left, n) ==
  /\ task[t].pc = "idle"
  /\ hist.ops < MaxOps
  /\ hist.nextVal + n - 1 <= MaxVals
  /\ task' = [task EXCEPT ![t] =
                [IdleList EXCEPT !.pc = "getOrCreate",
                                 !.op = IF left THEN "LPUSH" ELSE "RPUSH",
                                 !.left = left,
                                 !.values = [i \in 1..n |-> Value(hist.nextVal + i - 1)]]]
  /\ hist' = [hist EXCEPT !.ops = @ + 1, !.nextVal = @ + n]
  /\ UNCHANGED <<txVars, shard, heap, itemPool, chan>>
  /\ UNCHANGED <<clock, pubsub>>

\* LPop / RPop is called, or blockPop is called and calls it
PopCall(t, left, block) ==
  /\ task[t].pc = "idle"
  /\ hist.ops < MaxOps
  /\ task' = [task EXCEPT ![t] =
                [IdleList EXCEPT !.pc = "getList",
                                 !.op = IF block THEN (IF left THEN "BLPOP" ELSE "BRPOP")
                                        ELSE (IF left THEN "LPOP" ELSE "RPOP"),
                                 !.left = left, !.block = block]]
  /\ hist' = [hist EXCEPT !.ops = @ + 1]
  /\ UNCHANGED <<txVars, shard, heap, itemPool, chan>>
  /\ UNCHANGED <<clock, pubsub>>

\* getListItem: shard.Load and the type check
GetListItem(t) ==
  /\ task[t].pc = "getList"
  /\ IF shard = 0 THEN NilResult(t)
     ELSE IF heap[shard].Type # TypeList THEN task' = Return(t, "wrongtype", "", 0)
     ELSE task' = [task EXCEPT ![t] = [@ EXCEPT !.pc = "pop", !.item = shard]]
  /\ UNCHANGED <<txVars, shard, heap, itemPool, chan, hist>>
  /\ UNCHANGED <<clock, pubsub>>

\* item.pop(left), the section under i.Mu
Pop(t) ==
  /\ task[t].pc = "pop"
  /\ LET list == heap[task[t].item].List
     IN IF list = <<>>
        THEN NilResult(t) /\ UNCHANGED heap
        ELSE /\ heap' = [heap EXCEPT ![task[t].item].List = ListAfterPop(list, task[t].left)]
             /\ task' = [task EXCEPT ![t] =
                           [@ EXCEPT !.pc = "check",
                                     !.val = PoppedValue(list, task[t].left)]]
  /\ UNCHANGED <<txVars, shard, itemPool, chan, hist>>
  /\ UNCHANGED <<clock, pubsub>>

\* "Check if empty after pop": isEmpty under RLock, and the return when not empty
CheckEmpty(t) ==
  /\ task[t].pc = "check"
  /\ IF heap[task[t].item].List = <<>>
     THEN task' = [task EXCEPT ![t] = [@ EXCEPT !.pc = "del"]] /\ UNCHANGED hist
     ELSE task' = Return(t, "value", task[t].val, 0) /\ hist' = Took(t, task[t].val, FALSE)
  /\ UNCHANGED <<txVars, shard, heap, itemPool, chan>>
  /\ UNCHANGED <<clock, pubsub>>

\* d.Del(key): LoadAndDelete, NotifyObservers when something was deleted; the return
Del(t) ==
  /\ task[t].pc = "del"
  /\ shard' = 0
  /\ IF shard # 0 THEN SetWorld(NotifyObservers(World, ListKey)) ELSE UNCHANGED worldVars
  /\ task' = Return(t, "value", task[t].val, 0)
  /\ hist' = Took(t, task[t].val, FALSE)
  /\ UNCHANGED <<listFrame, heap, itemPool, chan>>
  /\ UNCHANGED <<clock, pubsub>>

\* where getOrCreateListItem returns to
AfterGet(t) == IF task[t].block THEN "register" ELSE "push"

\* getOrCreateListItem: shard.Load and the type check
GetOrCreateLoad(t) ==
  /\ task[t].pc = "getOrCreate"
  /\ IF shard = 0 THEN task' = [task EXCEPT ![t] = [@ EXCEPT !.pc = "create"]]
     ELSE IF heap[shard].Type # TypeList THEN task' = Return(t, "wrongtype", "", 0)
     ELSE task' = [task EXCEPT ![t] = [@ EXCEPT !.pc = AfterGet(t), !.item = shard]]
  /\ UNCHANGED <<txVars, shard, heap, itemPool, chan, hist>>
  /\ UNCHANGED <<clock, pubsub>>

\* getOrCreateListItem, "Create new": the new Item from the pool and
\* shard.LoadOrStore; NotifyObservers when it stored, else the new Item goes
\* back to the pool and the Item found is used
Create(t) ==
  /\ task[t].pc = "create"
  /\ \E p \in PoolGet :
       IF LoadOrStoreStores(shard)
       THEN /\ shard' = p
            /\ heap' = Put(heap, p, ListItem(<<>>))
            /\ itemPool' = itemPool \ {p}
            /\ SetWorld(NotifyObservers(World, ListKey))
            /\ task' = [task EXCEPT ![t] = [@ EXCEPT !.pc = AfterGet(t), !.item = p]]
       ELSE /\ heap' = Put(heap, p, ResetItem)
            /\ itemPool' = itemPool \cup {p}
            /\ IF heap[shard].Type # TypeList
               THEN task' = Return(t, "wrongtype", "", 0)
               ELSE task' = [task EXCEPT ![t] = [@ EXCEPT !.pc = AfterGet(t),
                                                          !.item = shard]]
            /\ UNCHANGED <<shard, worldVars>>
  /\ UNCHANGED <<listFrame, chan, hist>>
  /\ UNCHANGED <<clock, pubsub>>

\* item.lpush / item.rpush and the return of the size
Push(t) ==
  /\ task[t].pc = "push"
  /\ LET it == heap[task[t].item]
         r == ItemPush(it, task[t].values, task[t].left, chan)
         handed == Range(task[t].values) \ Range(r.rest)
     IN /\ heap' = [heap EXCEPT ![task[t].item] = r.item]
        /\ chan' = r.chan
        /\ task' = Return(t, "size", "", Len(r.item.List))
        /\ hist' = [hist EXCEPT !.handed = @ \cup handed,
                                !.placed = @ \cup Range(r.rest),
                                !.mixed = @ \/ (handed # {} /\ r.rest # <<>>)]
  /\ UNCHANGED <<txVars, shard, itemPool>>
  /\ UNCHANGED <<clock, pubsub>>

\* blockPop, "Register waiter": ch := make(chan string, 1) and the section
\* under item.Mu, which calls LPop / RPop again when the list is not empty
Register(t) ==
  /\ task[t].pc = "register"
  /\ IF heap[task[t].item].List # <<>>
     THEN /\ task' = [task EXCEPT ![t] = [@ EXCEPT !.pc = "getList", !.second = TRUE]]
          /\ UNCHANGED <<heap, chan>>
     ELSE /\ chan' = [chan EXCEPT ![t] = <<>>]
          /\ heap' = [heap EXCEPT ![task[t].item].Waiters = Append(@, t)]
          /\ task' = [task EXCEPT ![t] = [@ EXCEPT !.pc = "wait"]]
  /\ UNCHANGED <<txVars, shard, itemPool, hist>>
  /\ UNCHANGED <<clock, pubsub>>

\* select, case v := <-ch
Receive(t) ==
  /\ task[t].pc = "wait"
  /\ chan[t] # <<>>
  /\ chan' = [chan EXCEPT ![t] = Tail(@)]
  /\ task' = Return(t, "value", Head(chan[t]), 0)
  /\ hist' = Took(t, Head(chan[t]), TRUE)
  /\ UNCHANGED <<txVars, shard, heap, itemPool>>
  /\ UNCHANGED <<clock, pubsub>>

\* select, case <-time.After(timeout)
Timeout(t) ==
  /\ task[t].pc = "wait"
  /\ task' = [task EXCEPT ![t] = [@ EXCEPT !.pc = "timedOut"]]
  /\ UNCHANGED <<txVars, shard, heap, itemPool, chan, hist>>
  /\ UNCHANGED <<clock, pubsub>>

\* the timeout case: ch is taken out of item.Waiters under item.Mu, ErrTimeout
Unregister(t) ==
  /\ task[t].pc = "timedOut"
  /\ heap' = [heap EXCEPT ![task[t].item].Waiters = RemoveWaiter(@, t)]
  /\ task' = Return(t, "timeout", "", 0)
  /\ UNCHANGED <<txVars, shard, itemPool, chan, hist>>
  /\ UNCHANGED <<clock, pubsub>>

InitList ==
  /\ InitConn
  /\ seed = "same"
  /\ shard = 0
  /\ heap = <<>>
  /\ itemPool = {}
  /\ task = [t \in ListTasks |-> IdleList]
  /\ chan = [t \in ListTasks |-> <<>>]
  /\ hist = [ops |-> 0, nextVal |-> 1, taken |-> {}, dup |-> FALSE, byBlock |-> {},
             byChan |-> {}, handed |-> {}, placed |-> {}, mixed |-> FALSE]
  /\ clock = 0
  /\ pubsub = NewPubSub

NextList ==
  \/ \E t \in ListTasks, left \in BOOLEAN, n \in 1..MaxPush : PushCall(t, left, n)
  \/ \E t \in ListTasks, left \in BOOLEAN, block \in BOOLEAN : PopCall(t, left, block)
  \/ \E t \in ListTasks : GetListItem(t)
  \/ \E t \in ListTasks : Pop(t)
  \/ \E t \in ListTasks : CheckEmpty(t)
  \/ \E t \in ListTasks : Del(t)
  \/ \E t \in ListTasks : GetOrCreateLoad(t)
  \/ \E t \in ListTasks : Create(t)
  \/ \E t \in ListTasks : Push(t)
  \/ \E t \in ListTasks : Register(t)
  \/ \E t \in ListTasks : Receive(t)
  \/ \E t \in ListTasks : Timeout(t)
  \/ \E t \in ListTasks : Unregister(t)

SpecList == InitList /\ [][NextList]_vars

(* ---------------------------------------------------------------------- *)
(* Properties of SpecList                                                  *)
(* ---------------------------------------------------------------------- *)
Quiescent == \A t \in ListTasks : task[t].pc = "idle"

\* the list the key holds
CurrentList == IF shard = 0 THEN <<>> ELSE heap[shard].List

\* C8: when no call is in progress, every value that a completed push placed
\* in the list and that no pop has returned is in the list the key holds (the
\* state some sequential order of the calls would leave).
C8_CompletedWritePresent ==
  Quiescent => \A v \in hist.placed \ hist.taken : v \in Range(CurrentList)

\* C9: a value returned by a blocking pop was returned once only, by no other
\* pop, and is afterwards in no list buffer and in no waiter's channel.
C9_BlockingPopConsumesOnce ==
  /\ ~hist.dup
  /\ \A v \in hist.byBlock :
       /\ \A p \in DOMAIN heap : v \notin Range(heap[p].List)
       /\ \A t \in ListTasks : v \notin Range(chan[t])

\* C9 witness: one blocking pop returned a value handed to it through its
\* channel and another returned a value popped from the list
C9_Witness ==
  /\ hist.byChan # {}
  /\ hist.byBlock \ hist.byChan # {}

\* C10: a push of v1..vn onto an Item with w waiters sends v1..vm to the m =
\* min(w, n) oldest waiters in registration order and takes them off the
\* queue, places only the other values, at the head for LPUSH and at the tail
\* for RPUSH, and returns the size of the list after that; a value handed to
\* a waiter is never in a list buffer.
C10_PushHandsOldestWaiters ==
  [][/\ \A t \in ListTasks :
          (task[t].pc = "push" /\ task'[t].pc = "idle") =>
            LET it == heap[task[t].item]
                after == heap'[task[t].item]
                vs == task[t].values
                w == Len(it.Waiters)
                n == Len(vs)
                m == IF w < n THEN w ELSE n
                rest == SubSeq(vs, m + 1, n)
                k == Len(rest)
            IN /\ \A i \in 1..m : chan'[it.Waiters[i]] = <<vs[i]>>
               /\ after.Waiters = SubSeq(it.Waiters, m + 1, w)
               /\ \A i \in 1..m : vs[i] \notin Range(after.List)
               /\ Len(after.List) = Len(it.List) + k
               /\ IF task[t].left
                  THEN /\ Range(SubSeq(after.List, 1, k)) = Range(rest)
                       /\ SubSeq(after.List, k + 1, Len(after.List)) = it.List
                  ELSE /\ SubSeq(after.List, 1, Len(it.List)) = it.List
                       /\ Range(SubSeq(after.List, Len(it.List) + 1, Len(after.List)))
                            = Range(rest)
               /\ task'[t].size = Len(after.List)
     /\ \A v \in hist'.handed : \A p \in DOMAIN heap' : v \notin Range(heap'[p].List)]_vars

\* C10 witness: a push of two values found one waiter, handed it the first
\* value and placed the second
C10_Witness == hist.mixed

\* the waiters queues the channel of task t is in
WaitingOn(h, t) == {p \in DOMAIN h : t \in Range(h[p].Waiters)}

\* C11: a blocking pop whose timer fired returns the timeout error with its
\* channel in no waiters queue; the channel of a task that is not inside a
\* blocking pop is in no waiters queue, and no push sends it a value.
C11_TimeoutLeavesWaiters ==
  [][\A t \in ListTasks :
       /\ (task[t].pc = "timedOut" /\ task'[t].pc # "timedOut") =>
            task'[t].pc = "idle" /\ task'[t].res = "timeout"
       /\ task'[t].pc = "idle" => WaitingOn(heap', t) = {}
       /\ task[t].pc = "idle" => chan'[t] = chan[t]]_vars

\* C11 witness: a blocking pop has timed out and returned, and a push made
\* after that has placed its value in the list
C11_Witness ==
  \E t \in ListTasks :
    /\ task[t].pc = "idle" /\ task[t].res = "timeout"
    /\ chan[t] = <<>>
    /\ CurrentList # <<>>

\* C12: when no call is in progress the key is absent or its list is not
\* empty.
C12_NoEmptyListKept ==
  Quiescent => (shard # 0 => heap[shard].List # <<>>)

(* ---------------------------------------------------------------------- *)
(* SpecExpire: Set with a duration and the reads of one key, each read a  *)
(* goroutine that loads the pointer, compares ExpiresAt with the clock,   *)
(* and deletes the key when the Item has expired                          *)
(* ---------------------------------------------------------------------- *)
ExpTasks == {"t1", "t2"}
MaxReads == 2
MaxSets == 2
MaxClock == 3
Durations == {0, 1}
ReadOps == {"GET", "EXISTS", "TTL", "STRLEN"}

ExpKey == "k1"

\* an Item of type string with its ExpiresAt
ExpItem(v, e) == [Type |-> TypeString, Str |-> v, ExpiresAt |-> e]

\* Item.reset on the fields above
ResetExp == [Type |-> 0, Str |-> "", ExpiresAt |-> 0]

\* item.ExpiresAt > 0 && item.ExpiresAt < time.Now().UnixNano()
Expired(e, now) == e > 0 /\ e < now

\* TTL's test: ExpiresAt # 0 and ExpiresAt - now < 0
TTLExpired(e, now) == e # 0 /\ e - now < 0

\* len(item.Str) on the strings of the model
StrLenOf(x) == IF x = "" THEN 0 ELSE 2

IdleExp == [pc |-> "idle", calls |-> 0, op |-> "", item |-> 0, seen |-> 0,
            res |-> "", val |-> "", stale |-> FALSE]

\* the call returns: res is "absent" or "value"
ExpReturn(t, res, val, stale) ==
  task' = [task EXCEPT ![t] = [IdleExp EXCEPT !.calls = task[t].calls,
                                             !.res = res, !.val = val,
                                             !.stale = stale]]

\* the clock advances
Tick ==
  /\ clock < MaxClock
  /\ clock' = clock + 1
  /\ UNCHANGED <<txVars, shard, heap, itemPool, task, chan, hist, pubsub>>

\* Set(key, value, duration): an Item from the pool, reset, filled and stored
Set(v, d) ==
  /\ hist.sets < MaxSets
  /\ \E p \in PoolGet :
       /\ heap' = Put(heap, p, ExpItem(v, IF d > 0 THEN clock + d ELSE 0))
       /\ itemPool' = itemPool \ {p}
       /\ shard' = p
  /\ hist' = [hist EXCEPT !.sets = @ + 1]
  /\ UNCHANGED <<txVars, task, chan, clock, pubsub>>

\* a read of the key is entered
ReadCall(t, op) ==
  /\ task[t].pc = "idle"
  /\ task[t].calls < MaxReads
  /\ task' = [task EXCEPT ![t] = [IdleExp EXCEPT !.pc = "load", !.op = op,
                                                 !.calls = task[t].calls + 1]]
  /\ UNCHANGED <<txVars, shard, heap, itemPool, chan, hist, clock, pubsub>>

\* shard.Load(key)
ReadLoad(t) ==
  /\ task[t].pc = "load"
  /\ IF shard = 0
     THEN ExpReturn(t, "absent", "", FALSE)
     ELSE task' = [task EXCEPT ![t] = [@ EXCEPT !.pc = "check", !.item = shard,
                                          !.seen = heap[shard].ExpiresAt]]
  /\ UNCHANGED <<txVars, shard, heap, itemPool, chan, hist, clock, pubsub>>

\* what the read answers from an Item it takes as live
ReadValue(op, it, now) ==
  CASE op = "GET" -> it.Str
    [] op = "EXISTS" -> "true"
    [] op = "TTL" -> IF it.ExpiresAt = 0 THEN "-1" ELSE ToString(it.ExpiresAt - now)
    [] op = "STRLEN" -> ToString(StrLenOf(it.Str))

\* the expiry test on the loaded Item against time.Now()
ReadCheck(t) ==
  /\ task[t].pc = "check"
  /\ LET it == heap[task[t].item]
         gone == IF task[t].op = "TTL" THEN TTLExpired(it.ExpiresAt, clock)
                 ELSE Expired(it.ExpiresAt, clock)
     IN IF gone
        THEN task' = [task EXCEPT ![t] = [@ EXCEPT !.pc = "delete"]]
        ELSE ExpReturn(t, "value", ReadValue(task[t].op, it, clock),
                       Expired(task[t].seen, clock))
  /\ UNCHANGED <<txVars, shard, heap, itemPool, chan, hist, clock, pubsub>>

\* shard.Delete(key), NotifyObservers (no observer is registered), and in
\* StrLen item.reset() and itemPool.Put(item)
ReadDelete(t) ==
  /\ task[t].pc = "delete"
  /\ shard' = 0
  /\ IF task[t].op = "STRLEN"
     THEN /\ heap' = [heap EXCEPT ![task[t].item] = ResetExp]
          /\ itemPool' = itemPool \cup {task[t].item}
     ELSE UNCHANGED <<heap, itemPool>>
  /\ ExpReturn(t, "absent", "", FALSE)
  /\ hist' = [hist EXCEPT !.removed = TRUE]
  /\ UNCHANGED <<txVars, chan, clock, pubsub>>

InitExpire ==
  /\ InitConn
  /\ seed = "same"
  /\ shard = 0
  /\ heap = <<>>
  /\ itemPool = {}
  /\ task = [t \in ExpTasks |-> IdleExp]
  /\ chan = <<>>
  /\ hist = [sets |-> 0, removed |-> FALSE]
  /\ clock = 0
  /\ pubsub = NewPubSub

NextExpire ==
  \/ Tick
  \/ \E v \in Vals, d \in Durations : Set(v, d)
  \/ \E t \in ExpTasks, op \in ReadOps : ReadCall(t, op)
  \/ \E t \in ExpTasks : ReadLoad(t)
  \/ \E t \in ExpTasks : ReadCheck(t)
  \/ \E t \in ExpTasks : ReadDelete(t)

SpecExpire == InitExpire /\ [][NextExpire]_vars

\* C13: a read never answers with a value when the Item it loaded under the
\* key had expired by the time of its expiry test; it answers absent.
C13_ExpiredReadsAbsent ==
  \A t \in ExpTasks : ~(task[t].res = "value" /\ task[t].stale)

(* ---------------------------------------------------------------------- *)
(* SpecZSet: ZAdd, ZIncrBy and ZRem on one sorted set, each under the     *)
(* Item's lock; the skip list is a graph of nodes with forward pointers   *)
(* and spans, 0 is the nil pointer                                        *)
(* ---------------------------------------------------------------------- *)
Members == {"a", "b", "c"}
MaxLevel == 2
MaxZOps == 4

ZKey == "k1"

\* a float64: a number or NaN
Num(v) == [nan |-> FALSE, v |-> v]
NaN == [nan |-> TRUE, v |-> 0]

\* what strconv.ParseFloat yields for the score arguments of the model
Scores == {Num(1), Num(2), NaN}
Increments == {Num(1), Num(0 - 2), NaN}

\* the float64 operators <, >, == and +
FLt(x, y) == ~x.nan /\ ~y.nan /\ x.v < y.v
FGt(x, y) == ~x.nan /\ ~y.nan /\ x.v > y.v
FEq(x, y) == ~x.nan /\ ~y.nan /\ x.v = y.v
FAdd(x, y) == IF x.nan \/ y.nan THEN NaN ELSE Num(x.v + y.v)

\* the byte order of the member strings
StrOrd(m) == CASE m = "" -> 0 [] m = "a" -> 1 [] m = "b" -> 2 [] m = "c" -> 3
StrLt(m, n) == StrOrd(m) < StrOrd(n)

zslCreateNode(level, score, member) ==
  [member |-> member, score |-> score, backward |-> 0,
   level |-> [i \in 0..(level - 1) |-> [forward |-> 0, span |-> 0]]]

\* the header is node 1
zslCreate ==
  [header |-> 1, tail |-> 0, length |-> 0, level |-> 1,
   nodes |-> [n \in {1} |-> zslCreateNode(MaxLevel, Num(0), "")]]

newSortedSet == [dict |-> <<>>, zsl |-> zslCreate]

\* the loop conditions of insert/delete/updateScore and of getRank
Before(n, score, member) ==
  FLt(n.score, score) \/ (FEq(n.score, score) /\ StrLt(n.member, member))
BeforeOrAt(n, score, member) ==
  FLt(n.score, score) \/
  (FEq(n.score, score) /\ (StrLt(n.member, member) \/ n.member = member))

\* the inner loop at level i from node x with rank r
RECURSIVE Advance(_, _, _, _, _, _, _)
Advance(z, x, i, r, score, member, inclusive) ==
  LET f == z.nodes[x].level[i].forward
  IN IF f # 0 /\ (IF inclusive THEN BeforeOrAt(z.nodes[f], score, member)
                  ELSE Before(z.nodes[f], score, member))
     THEN Advance(z, f, i, r + z.nodes[x].level[i].span, score, member, inclusive)
     ELSE [x |-> x, r |-> r]

\* the outer loop from level i down to 0: the update and rank arrays
RECURSIVE Descend(_, _, _, _, _, _, _)
Descend(z, i, x, r, score, member, acc) ==
  IF i < 0 THEN acc
  ELSE LET a == Advance(z, x, i, r, score, member, FALSE)
       IN Descend(z, i - 1, a.x, a.r, score, member,
                  [update |-> Put(acc.update, i, a.x),
                   rank |-> Put(acc.rank, i, a.r)])

Search(z, score, member) ==
  Descend(z, z.level - 1, z.header, 0, score, member,
          [update |-> <<>>, rank |-> <<>>])

\* a pointer for a node made by zslCreateNode
NewNode(z) == CHOOSE n \in 2..(Cardinality(DOMAIN z.nodes) + 1) : n \notin DOMAIN z.nodes

\* zskiplist.insert with the level zslRandomLevel returned
insert(z, score, member, level) ==
  LET s == Search(z, score, member)
      grow == level > z.level
      top == IF grow THEN level ELSE z.level
      update == [i \in 0..(top - 1) |-> IF i < z.level THEN s.update[i] ELSE z.header]
      rank == [i \in 0..(top - 1) |-> IF i < z.level THEN s.rank[i] ELSE 0]
      \* the span of update[i] at level i before the splice
      span0(i) == IF i < z.level THEN z.nodes[update[i]].level[i].span ELSE z.length
      x == NewNode(z)
      next0 == z.nodes[update[0]].level[0].forward
      xnode == [member |-> member, score |-> score,
                backward |-> IF update[0] # z.header THEN update[0] ELSE 0,
                level |-> [i \in 0..(level - 1) |->
                             [forward |-> z.nodes[update[i]].level[i].forward,
                              span |-> span0(i) - (rank[0] - rank[i])]]]
      old(n) ==
        [z.nodes[n] EXCEPT
           !.level = [i \in DOMAIN @ |->
                        IF i < top /\ update[i] = n
                        THEN IF i < level
                             THEN [forward |-> x, span |-> (rank[0] - rank[i]) + 1]
                             ELSE [@[i] EXCEPT !.span = @ + 1]
                        ELSE @[i]],
           !.backward = IF n = next0 THEN x ELSE @]
  IN [z EXCEPT !.nodes = [n \in DOMAIN z.nodes \cup {x} |->
                            IF n = x THEN xnode ELSE old(n)],
               !.level = top,
               !.tail = IF next0 = 0 THEN x ELSE @,
               !.length = @ + 1]

\* the loop that lowers zsl.level while the top level of the header is empty
RECURSIVE Shrink(_, _)
Shrink(nodes, level) ==
  IF level > 1 /\ nodes[1].level[level - 1].forward = 0
  THEN Shrink(nodes, level - 1) ELSE level

\* zskiplist.deleteNode; the unlinked node is garbage
deleteNode(z, x, update) ==
  LET xn == z.nodes[x]
      unlinked ==
        [n \in DOMAIN z.nodes \ {x} |->
           [z.nodes[n] EXCEPT
              !.level = [i \in DOMAIN @ |->
                           IF i < z.level /\ update[i] = n
                           THEN IF @[i].forward = x
                                THEN [forward |-> xn.level[i].forward,
                                      span |-> @[i].span + (xn.level[i].span - 1)]
                                ELSE [@[i] EXCEPT !.span = @ - 1]
                           ELSE @[i]],
              !.backward = IF n = xn.level[0].forward THEN xn.backward ELSE @]]
  IN [z EXCEPT !.nodes = unlinked,
               !.tail = IF xn.level[0].forward = 0 THEN xn.backward ELSE @,
               !.level = Shrink(unlinked, z.level),
               !.length = @ - 1]

\* zskiplist.delete
delete(z, score, member) ==
  LET s == Search(z, score, member)
      x == z.nodes[s.update[0]].level[0].forward
  IN IF x # 0 /\ FEq(score, z.nodes[x].score) /\ z.nodes[x].member = member
     THEN deleteNode(z, x, s.update)
     ELSE z

\* zskiplist.updateScore with the level a re-insertion would draw
updateScore(z, curScore, member, newScore, level) ==
  LET s == Search(z, curScore, member)
      x == z.nodes[s.update[0]].level[0].forward
      xn == z.nodes[x]
      b == z.nodes[xn.backward]
      f == z.nodes[xn.level[0].forward]
  IN IF x # 0 /\ FEq(curScore, xn.score) /\ xn.member = member
     THEN IF /\ (xn.backward = 0 \/ FLt(b.score, newScore)
                   \/ (FEq(b.score, newScore) /\ StrLt(b.member, member)))
             /\ (xn.level[0].forward = 0 \/ FGt(f.score, newScore)
                   \/ (FEq(f.score, newScore) /\ StrLt(member, f.member)))
          THEN [z EXCEPT !.nodes[x].score = newScore]
          ELSE insert(deleteNode(z, x, s.update), newScore, member, level)
     ELSE z

\* zskiplist.getRank: the rank accumulated from the spans, 0 when not found
RECURSIVE getRankFrom(_, _, _, _, _, _)
getRankFrom(z, i, x, r, score, member) ==
  IF i < 0 THEN 0
  ELSE LET a == Advance(z, x, i, r, score, member, TRUE)
       IN IF z.nodes[a.x].member = member THEN a.r
          ELSE getRankFrom(z, i - 1, a.x, a.r, score, member)

getRank(z, score, member) == getRankFrom(z, z.level - 1, z.header, 0, score, member)

TypeZSet == 4
ZSetItem(zs) == [Type |-> TypeZSet, ZSet |-> zs]

\* getOrCreateZSetItem: the Item of the key, made and stored when absent
ZItem == IF shard = 0 THEN ZSetItem(newSortedSet) ELSE heap[shard]

\* the Item with its sorted set replaced is what the key maps to
ZStore(zs) ==
  IF shard = 0
  THEN \E p \in PoolGet :
         /\ heap' = Put(heap, p, ZSetItem(zs))
         /\ itemPool' = itemPool \ {p}
         /\ shard' = p
  ELSE /\ heap' = [heap EXCEPT ![shard] = ZSetItem(zs)]
       /\ UNCHANGED <<shard, itemPool>>

ZCount == /\ hist.ops < MaxZOps
          /\ hist' = [hist EXCEPT !.ops = @ + 1]

\* ZAdd(key, score, member); level is what zslRandomLevel returns if asked
ZAdd(score, member, level) ==
  /\ ZCount
  /\ LET zs == ZItem.ZSet
     IN IF member \in DOMAIN zs.dict
        THEN IF ~FEq(zs.dict[member], score)
             THEN ZStore([dict |-> Put(zs.dict, member, score),
                          zsl |-> updateScore(zs.zsl, zs.dict[member], member, score, level)])
             ELSE ZStore(zs)
        ELSE ZStore([dict |-> Put(zs.dict, member, score),
                     zsl |-> insert(zs.zsl, score, member, level)])
  /\ UNCHANGED <<txVars, task, chan, clock, pubsub>>

\* ZIncrBy(key, increment, member)
ZIncrBy(increment, member, level) ==
  /\ ZCount
  /\ LET zs == ZItem.ZSet
         score == IF member \in DOMAIN zs.dict
                  THEN FAdd(zs.dict[member], increment) ELSE increment
     IN ZStore([dict |-> Put(zs.dict, member, score),
                zsl |-> IF member \in DOMAIN zs.dict
                        THEN updateScore(zs.zsl, zs.dict[member], member, score, level)
                        ELSE insert(zs.zsl, score, member, level)])
  /\ UNCHANGED <<txVars, task, chan, clock, pubsub>>

\* the loop of ZRem over its members
RECURSIVE ZRemAll(_, _)
ZRemAll(zs, ms) ==
  IF ms = <<>> THEN zs
  ELSE LET m == Head(ms)
       IN IF m \in DOMAIN zs.dict
          THEN ZRemAll([dict |-> Restrict(zs.dict, DOMAIN zs.dict \ {m}),
                        zsl |-> delete(zs.zsl, zs.dict[m], m)], Tail(ms))
          ELSE ZRemAll(zs, Tail(ms))

\* ZRem(key, members...); the key is deleted when the dictionary is empty
ZRem(ms) ==
  /\ ZCount
  /\ IF shard = 0 THEN UNCHANGED <<shard, heap, itemPool>>
     ELSE LET zs == ZRemAll(heap[shard].ZSet, ms)
          IN IF zs.dict = <<>>
             THEN /\ shard' = 0
                  /\ heap' = Restrict(heap, DOMAIN heap \ {shard})
                  /\ UNCHANGED itemPool
             ELSE ZStore(zs)
  /\ UNCHANGED <<txVars, task, chan, clock, pubsub>>

InitZSet ==
  /\ InitConn
  /\ seed = "same"
  /\ shard = 0
  /\ heap = <<>>
  /\ itemPool = {}
  /\ task = <<>>
  /\ chan = <<>>
  /\ hist = [ops |-> 0]
  /\ clock = 0
  /\ pubsub = NewPubSub

NextZSet ==
  \/ \E sc \in Scores, m \in Members, l \in 1..MaxLevel : ZAdd(sc, m, l)
  \/ \E inc \in Increments, m \in Members, l \in 1..MaxLevel : ZIncrBy(inc, m, l)
  \/ \E m \in Members : ZRem(<<m>>)
  \/ \E m \in Members, n \in Members : ZRem(<<m, n>>)

SpecZSet == InitZSet /\ [][NextZSet]_vars

\* the nodes of level 0 from the header's successor, in order
RECURSIVE Chain(_, _, _)
Chain(z, x, fuel) ==
  IF x = 0 \/ fuel = 0 THEN <<>>
  ELSE <<x>> \o Chain(z, z.nodes[x].level[0].forward, fuel - 1)

Level0(z) == Chain(z, z.nodes[z.header].level[0].forward, Cardinality(DOMAIN z.nodes))

\* the rank of a member found by scanning level 0, 0 when it is not there
RankByScan(z, m) ==
  LET c == Level0(z)
      at == {i \in 1..Len(c) : z.nodes[c[i]].member = m}
  IN IF at = {} THEN 0 ELSE CHOOSE i \in at : \A j \in at : i <= j

\* C14: dictionary and skip list agree: same size, one node per dictionary
\* entry with the same score and no other node, and for every member the
\* rank from the spans is the rank by scanning level 0.
C14_DictMatchesSkipList ==
  shard # 0 =>
    LET zs == heap[shard].ZSet
        c == Level0(zs.zsl)
    IN /\ Cardinality(DOMAIN zs.dict) = zs.zsl.length
       /\ Len(c) = zs.zsl.length
       /\ \A m \in DOMAIN zs.dict :
            /\ Cardinality({i \in 1..Len(c) : zs.zsl.nodes[c[i]].member = m}) = 1
            /\ \A i \in 1..Len(c) :
                 zs.zsl.nodes[c[i]].member = m => zs.zsl.nodes[c[i]].score = zs.dict[m]
            /\ getRank(zs.zsl, zs.dict[m], m) = RankByScan(zs.zsl, m)
       /\ \A i \in 1..Len(c) : zs.zsl.nodes[c[i]].member \in DOMAIN zs.dict

(* ---------------------------------------------------------------------- *)
(* SpecStream: XAdd and XTrim on one stream, each under the Item's lock,  *)
(* with the millisecond clock that "*" reads                              *)
(* ---------------------------------------------------------------------- *)
MaxXOps == 4
MaxTs == 1
MaxSeq == 1
MaxTrim == 2

StreamKey == "k1"

\* an ID string: the decimal text "ts-seq" (plain), the same numbers with a
\* leading zero on seq such as "0-00" (padded), or a text without a dash
\* (bare); two strings are equal when all three fields are
IdText(ts, seq, form) == [ts |-> ts, seq |-> seq, form |-> form]
PaddedZero == IdText(0, 0, "padded")
Bare == IdText(0, 0, "bare")
ExplicitIds ==
  {IdText(ts, seq, "plain") : ts \in 0..MaxTs, seq \in 0..MaxSeq} \cup {PaddedZero, Bare}
Star == IdText(0, 0, "star")
ZeroId == IdText(0, 0, "plain")

\* fmt.Sprintf("%d-%d", ts, seq)
FormatId(ts, seq) == IdText(ts, seq, "plain")

\* parseID: strings.Split on "-" and strconv.ParseUint on both parts; without
\* exactly two parts it returns 0, 0 and an error
parseID(id) ==
  IF id.form \in {"plain", "padded"}
  THEN [ts |-> id.ts, seq |-> id.seq, err |-> FALSE]
  ELSE [ts |-> 0, seq |-> 0, err |-> TRUE]

\* compareIDs drops parseID's error
compareIDs(id1, id2) ==
  LET a == parseID(id1)
      b == parseID(id2)
  IN IF a.ts < b.ts THEN 0 - 1
     ELSE IF a.ts > b.ts THEN 1
     ELSE IF a.seq < b.seq THEN 0 - 1
     ELSE IF a.seq > b.seq THEN 1
     ELSE 0

\* Stream.generateID with time.Now().UnixMilli() = now
generateID(s, id, now) ==
  IF id = Star
  THEN LET prev == parseID(s.lastID)
           ts == IF now < prev.ts THEN prev.ts ELSE now
           seq == IF ts = prev.ts THEN prev.seq + 1 ELSE 0
       IN FormatId(ts, seq)
  ELSE id

newStream == [Entries |-> <<>>, lastID |-> ZeroId]

TypeStream == 5
StreamItem(s) == [Type |-> TypeStream, Stream |-> s]

\* getOrCreateStreamItem
XItem == IF shard = 0 THEN StreamItem(newStream) ELSE heap[shard]

XStore(s) ==
  IF shard = 0
  THEN \E p \in PoolGet :
         /\ heap' = Put(heap, p, StreamItem(s))
         /\ itemPool' = itemPool \ {p}
         /\ shard' = p
  ELSE /\ heap' = [heap EXCEPT ![shard] = StreamItem(s)]
       /\ UNCHANGED <<shard, itemPool>>

DropFirstKeepsOldest(es, n) == SubSeq(es, 1, Len(es) - n)

\* s.Entries[n:]
DropFirst(es, n) == SubSeq(es, n + 1, Len(es))

XCount(op, maxLen, ok, ret, before, added) ==
  /\ hist.ops < MaxXOps
  /\ hist' = [ops |-> hist.ops + 1,
              added |-> hist.added \o added,
              last |-> [op |-> op, maxLen |-> maxLen, ok |-> ok,
                        ret |-> ret, before |-> before]]

\* XAdd(key, id, maxLen, fields...)
XAdd(id, maxLen, fields) ==
  IF Len(fields) % 2 # 0
  THEN /\ XCount("XADD", maxLen, FALSE, ZeroId, 0, <<>>)
       /\ UNCHANGED <<txVars, shard, heap, itemPool, task, chan, clock, pubsub>>
  ELSE LET s == XItem.Stream
           newID == generateID(s, id, clock)
           rejected == IF s.lastID # ZeroId
                       THEN compareIDs(newID, s.lastID) <= 0
                       ELSE newID = ZeroId
           entry == [ID |-> newID, Fields |-> fields]
           all == Append(s.Entries, entry)
           kept == IF maxLen > 0 /\ Len(all) > maxLen
                   THEN DropFirst(all, Len(all) - maxLen) ELSE all
       IN /\ IF rejected
             THEN /\ XStore(s)
                  /\ XCount("XADD", maxLen, FALSE, ZeroId, Len(s.Entries), <<>>)
             ELSE /\ XStore([Entries |-> kept, lastID |-> newID])
                  /\ XCount("XADD", maxLen, TRUE, newID, Len(s.Entries), <<entry>>)
          /\ UNCHANGED <<txVars, task, chan, clock, pubsub>>

\* XTrim(key, maxLen)
XTrim(maxLen) ==
  /\ IF maxLen < 0 \/ shard = 0
     THEN /\ XCount("XTRIM", maxLen, maxLen >= 0, 0, 0, <<>>)
          /\ UNCHANGED <<shard, heap, itemPool>>
     ELSE LET s == heap[shard].Stream
              currentLen == Len(s.Entries)
              removeCount == currentLen - maxLen
          IN IF currentLen <= maxLen
             THEN /\ XCount("XTRIM", maxLen, TRUE, 0, currentLen, <<>>)
                  /\ UNCHANGED <<shard, heap, itemPool>>
             ELSE /\ XStore([s EXCEPT !.Entries = DropFirst(s.Entries, removeCount)])
                  /\ XCount("XTRIM", maxLen, TRUE, removeCount, currentLen, <<>>)
  /\ UNCHANGED <<txVars, task, chan, clock, pubsub>>

InitStream ==
  /\ InitConn
  /\ seed = "same"
  /\ shard = 0
  /\ heap = <<>>
  /\ itemPool = {}
  /\ task = <<>>
  /\ chan = <<>>
  /\ hist = [ops |-> 0, added |-> <<>>,
             last |-> [op |-> "", maxLen |-> 0, ok |-> FALSE,
                       ret |-> 0, before |-> 0]]
  /\ clock = 0
  /\ pubsub = NewPubSub

NextStream ==
  \/ clock < MaxTs /\ Tick
  \/ \E id \in ExplicitIds \cup {Star}, m \in 0..MaxTrim : XAdd(id, m, <<"f", "v">>)
  \/ XAdd(Star, 0, <<"f">>)
  \/ \E m \in (0 - 1)..MaxTrim : XTrim(m)

SpecStream == InitStream /\ [][NextStream]_vars

\* the entries of the stream of the key
CurrentEntries == IF shard = 0 THEN <<>> ELSE heap[shard].Stream.Entries

\* C15: every entry has an ID of the form (ms, seq) other than 0-0, and each
\* entry's ID is greater in (ms, seq) order than the one before it.
C15_StreamIdsIncrease ==
  LET es == CurrentEntries
  IN /\ \A i \in 1..Len(es) :
          /\ ~parseID(es[i].ID).err
          /\ ~(parseID(es[i].ID).ts = 0 /\ parseID(es[i].ID).seq = 0)
     /\ \A i \in 1..(Len(es) - 1) : compareIDs(es[i].ID, es[i + 1].ID) < 0

\* C16: the entries kept are the most recently appended ones in insertion
\* order; after an XADD with maxLen > 0 there are min(before + 1, maxLen) of
\* them; an XTRIM to m >= 0 returns max(0, before - m) and leaves that many
\* fewer.
C16_TrimKeepsNewest ==
  LET es == CurrentEntries
      l == hist.last
  IN /\ Len(es) <= Len(hist.added)
     /\ es = SubSeq(hist.added, Len(hist.added) - Len(es) + 1, Len(hist.added))
     /\ (l.op = "XADD" /\ l.ok /\ l.maxLen > 0) =>
          /\ Len(es) <= l.maxLen
          /\ Len(es) = IF l.before + 1 < l.maxLen THEN l.before + 1 ELSE l.maxLen
     /\ (l.op = "XTRIM" /\ l.ok) =>
          /\ l.ret = IF l.before - l.maxLen > 0 THEN l.before - l.maxLen ELSE 0
          /\ Len(es) = l.before - l.ret

\* an XTRIM has removed entries after an XADD with maxLen had removed some
C16_Witness ==
  /\ hist.last.op = "XTRIM" /\ hist.last.ok /\ hist.last.ret > 0
  /\ Len(hist.added) - Len(CurrentEntries) > hist.last.ret

(* ---------------------------------------------------------------------- *)
(* SpecPubSub: Subscribe and Unsubscribe under pubsub.mu, Publish under   *)
(* its read lock sending to one subscriber per step, and subscribers      *)
(* receiving from their message channels                                  *)
(* ---------------------------------------------------------------------- *)
Publishers == {"p1", "p2"}
Channels == {"news", "sports"}
Msgs == {"m1", "m2"}
MaxSubs == 2
MaxBuf == 1
MaxPubOps == 4

\* the channels arguments of Subscribe and Unsubscribe
ChannelArgs == {<<>>, <<"news">>, <<"sports">>, <<"news", "sports">>}

\* whether id is in d.pubsub.channels[ch]
Subscribed(ps, ch, id) == ch \in DOMAIN ps.channels /\ id \in ps.channels[ch]

IdlePub == [pc |-> "idle", channel |-> "", msg |-> "", todo |-> {},
            count |-> 0, dropped |-> 0, ret |-> 0]

\* pubsub.mu is free of readers
NoReader == \A t \in Publishers : task[t].pc = "idle"

PubCount(op, id, chs) ==
  /\ hist.ops < MaxPubOps
  /\ hist' = [ops |-> hist.ops + 1, last |-> [op |-> op, id |-> id, chs |-> chs]]

\* the loop of Subscribe: the id is added to each channel, the channel's map
\* made when missing
RECURSIVE SubscribeAll(_, _, _)
SubscribeAll(cs, chs, id) ==
  IF chs = <<>> THEN cs
  ELSE LET ch == Head(chs)
           c1 == IF ch \in DOMAIN cs THEN cs ELSE Put(cs, ch, {})
       IN SubscribeAll([c1 EXCEPT ![ch] = @ \cup {id}], Tail(chs), id)

\* Subscribe(channels...): a fresh id and a buffered message channel
Subscribe(chs) ==
  /\ NoReader
  /\ pubsub.nextID <= MaxSubs
  /\ PubCount("SUBSCRIBE", pubsub.nextID, chs)
  /\ pubsub' = [nextID |-> pubsub.nextID + 1,
                channels |-> SubscribeAll(pubsub.channels, chs, pubsub.nextID)]
  /\ chan' = Put(chan, pubsub.nextID, <<>>)
  /\ UNCHANGED <<txVars, shard, heap, itemPool, task, clock>>

NamedEvery(cs, chs) == DOMAIN cs

\* the channels Unsubscribe visits: all of them when none is named
Named(cs, chs) == IF chs = <<>> THEN DOMAIN cs ELSE Range(chs) \cap DOMAIN cs

\* delete(clients, id) and delete(d.pubsub.channels, ch) when none is left
UnsubscribeAll(cs, chs, id) ==
  LET left == [ch \in DOMAIN cs |->
                 IF ch \in Named(cs, chs) THEN cs[ch] \ {id} ELSE cs[ch]]
  IN Restrict(left, {ch \in DOMAIN cs : left[ch] # {}})

\* Unsubscribe(id, channels...)
Unsubscribe(id, chs) ==
  /\ NoReader
  /\ PubCount("UNSUBSCRIBE", id, chs)
  /\ pubsub' = [pubsub EXCEPT !.channels = UnsubscribeAll(pubsub.channels, chs, id)]
  /\ UNCHANGED <<txVars, shard, heap, itemPool, task, chan, clock>>

\* Publish is entered: the read lock and the channel's subscribers
Publish(t, ch, m) ==
  /\ task[t].pc = "idle"
  /\ PubCount("PUBLISH", 0, <<ch>>)
  /\ task' = [task EXCEPT ![t] =
                IF ch \in DOMAIN pubsub.channels
                THEN [IdlePub EXCEPT !.pc = "send", !.channel = ch, !.msg = m,
                                     !.todo = pubsub.channels[ch]]
                ELSE IdlePub]
  /\ UNCHANGED <<txVars, shard, heap, itemPool, chan, clock, pubsub>>

CountAfterAny(count, ok) == count + 1

\* count++ in the send case of the select
CountAfter(count, ok) == IF ok THEN count + 1 ELSE count

\* one iteration of the range over the subscribers, in map order: a send
\* if the buffer has room, else the default case
PublishSend(t) ==
  /\ task[t].pc = "send"
  /\ \E i \in task[t].todo :
       LET ok == Len(chan[i]) < MaxBuf
       IN /\ chan' = IF ok THEN [chan EXCEPT ![i] = Append(@, task[t].msg)] ELSE chan
          /\ task' = [task EXCEPT ![t] =
                        [@ EXCEPT !.todo = @ \ {i},
                                  !.count = CountAfter(@, ok),
                                  !.dropped = IF ok THEN @ ELSE @ + 1]]
  /\ UNCHANGED <<txVars, shard, heap, itemPool, hist, clock, pubsub>>

\* return count, the read lock is released
PublishReturn(t) ==
  /\ task[t].pc = "send"
  /\ task[t].todo = {}
  /\ task' = [task EXCEPT ![t] = [IdlePub EXCEPT !.ret = task[t].count,
                                                 !.dropped = task[t].dropped]]
  /\ UNCHANGED <<txVars, shard, heap, itemPool, chan, hist, clock, pubsub>>

\* a subscriber receives from its message channel
Recv(i) ==
  /\ i \in DOMAIN chan
  /\ chan[i] # <<>>
  /\ chan' = [chan EXCEPT ![i] = Tail(@)]
  /\ UNCHANGED <<txVars, shard, heap, itemPool, task, hist, clock, pubsub>>

InitPubSub ==
  /\ InitConn
  /\ seed = "same"
  /\ shard = 0
  /\ heap = <<>>
  /\ itemPool = {}
  /\ task = [t \in Publishers |-> IdlePub]
  /\ chan = <<>>
  /\ hist = [ops |-> 0, last |-> [op |-> "", id |-> 0, chs |-> <<>>]]
  /\ clock = 0
  /\ pubsub = NewPubSub

NextPubSub ==
  \/ \E chs \in ChannelArgs : Subscribe(chs)
  \/ \E id \in 1..MaxSubs, chs \in ChannelArgs : Unsubscribe(id, chs)
  \/ \E t \in Publishers, ch \in Channels, m \in Msgs : Publish(t, ch, m)
  \/ \E t \in Publishers : PublishSend(t)
  \/ \E t \in Publishers : PublishReturn(t)
  \/ \E i \in 1..MaxSubs : Recv(i)

SpecPubSub == InitPubSub /\ [][NextPubSub]_vars

C19_QueuedInsideMulti ==
  [][\A c \in Clients :
       /\ (inTx[c] /\ used' # used) =>
            \A cmd \in TxCmds :
              Normal(c, cmd) =>
                /\ store' = store /\ tracking' = tracking
                /\ txQueue'[c] = Append(txQueue[c], cmd)
                /\ out'[c] = <<WriteSimpleString("QUEUED")>>
                /\ inTx'[c]
       /\ txQueue'[c] \notin {txQueue[c], <<>>} =>
            ~((\E k \in Keys : Watch(c, k)) \/ Unwatch(c) \/ Multi(c) \/ Discard(c) \/ Exec(c))]_vars

\* a SET and a GET are queued in that order and the SET has not run
C19_Witness ==
  \E c \in Clients :
    /\ inTx[c]
    /\ txQueue[c] = <<Cmd("SET", "k1", "v1"), Cmd("GET", "k1", "")>>
    /\ out[c] = <<WriteSimpleString("QUEUED")>>
    /\ "k1" \notin DOMAIN store

TxReset(c) == ~inTx[c] /\ txQueue[c] = <<>> /\ watching[c] = {} /\ ~dirty[c]

\* C20: after DISCARD inside MULTI the reply is OK, in_tx, queue, watched
\* keys and dirty flag are reset and nothing is left to run; after EXEC
\* inside MULTI, aborted or not, the same state is reset, also while the
\* queue is executed; only EXEC runs queued commands.
C20_DiscardAndExecReset ==
  \A c \in Clients :
    /\ last[c] = "discarded" =>
         /\ StripPush(out[c]) = <<WriteSimpleString("OK")>>
         /\ TxReset(c)
         /\ exec[c] = IdleExec
    /\ last[c] \in {"null", "running", "array"} => TxReset(c)
    /\ exec[c].mode # "idle" => last[c] = "running"

\* a transaction with a queued SET on a watched key was discarded and the
\* SET has not run
C20_Witness ==
  \E c \in Clients :
    /\ last[c] = "discarded"
    /\ out[c] = <<WriteSimpleString("OK")>>
    /\ TxReset(c)
    /\ exec[c] = IdleExec
    /\ used = 4
    /\ store = <<>>
    /\ \A o \in Clients \ {c} : out[o] = <<>>

\* C21: MULTI inside MULTI, EXEC and DISCARD outside MULTI, and WATCH inside
\* MULTI each answer with their error frame, leave in_tx, the queue, the
\* watched keys and the dirty flag as they were, leave the store untouched,
\* and leave the connection ready to read its next command.
C21_TxStateErrors ==
  [][\A c \in Clients :
       LET Refused(m) ==
             /\ out'[c] = <<WriteError(m)>>
             /\ inTx'[c] = inTx[c]
             /\ txQueue'[c] = txQueue[c]
             /\ watching'[c] = watching[c]
             /\ dirty'[c] = dirty[c]
             /\ store' = store
             /\ exec'[c] = IdleExec
       IN /\ (inTx[c] /\ used' # used /\ Multi(c))
               => Refused("ERR MULTI calls can not be nested")
          /\ (inTx[c] /\ used' # used /\ \E k \in Keys : Watch(c, k))
               => Refused("ERR WATCH inside MULTI is not allowed")
          /\ (~inTx[c] /\ used' # used /\ Discard(c))
               => Refused("ERR DISCARD without MULTI")
          /\ (~inTx[c] /\ used' # used /\ Exec(c))
               => Refused("ERR EXEC without MULTI")]_vars

\* a nested MULTI was refused with a command queued and a key watched
C21_Witness ==
  /\ out["c1"] = <<WriteError("ERR MULTI calls can not be nested")>>
  /\ inTx["c1"]
  /\ txQueue["c1"] = <<Cmd("SET", "k1", "v1")>>
  /\ watching["c1"] = {"k2"}
  /\ exec["c1"] = IdleExec
  /\ "k1" \notin DOMAIN store

\* the frame the dispatcher writes for one command, by the command's kind
ReplyOf(cmd, f) ==
  CASE cmd.name = "SET" ->
         IF cmd.val = ""
         THEN f = WriteError("ERR wrong number of arguments for 'set' command")
         ELSE f = WriteSimpleString("OK")
    [] cmd.name = "GET" -> f = WriteNull \/ \E v \in Vals \cup {"%v"} : f = WriteBulkString(v)
    [] cmd.name = "RPUSH" ->
         f = WriteError("WRONGTYPE") \/ \E n \in 1..MaxCmds : f = WriteInteger(n)
    [] cmd.name = "TRACKING" -> f = WriteSimpleString("OK")
    [] OTHER -> f = WriteError("ERR unknown command '" \o cmd.name \o "'")

\* C22: when a non-aborted EXEC of the queue q1..qn completes, the reply is
\* the array header of size n followed by exactly n frames, the i-th being
\* the reply of qi, in sequential and in parallel mode; a failing qi leaves
\* its error frame at position i and every queued command has run once.
C22_ExecReplyPositions ==
  [][\A c \in Clients :
       (last[c] = "running" /\ last'[c] = "array") =>
         LET q == exec[c].queue
             o == StripPush(out'[c])
         IN /\ Len(o) = 1 + Len(q)
            /\ o[1] = WriteArray(Len(q))
            /\ \A i \in 1..Len(q) : ReplyOf(q[i], o[i + 1])
            /\ \A i \in 1..Len(q) : exec'[c].ran[i] = 1]_vars

\* a parallel EXEC of a SET without value and a SET has completed: the error
\* is the first reply, the second SET was executed
C22_Witness ==
  /\ last["c1"] = "array"
  /\ out["c1"] = <<WriteArray(2),
                   WriteError("ERR wrong number of arguments for 'set' command"),
                   WriteSimpleString("OK")>>
  /\ exec["c1"].ran = <<1, 1>>
  /\ store = [k \in {"k2"} |-> StringItem("v1")]
  /\ seed = "apart"

\* C23: once a connection's stream is closed and its handler has returned,
\* the connection is in no key's observer set and has no reverse entry, no
\* mutation invokes its Invalidate any more, and the commands it left queued
\* in an open MULTI are never executed.
C23_ClosedConnectionGone ==
  /\ [](\A c \in Clients :
          exec[c].mode = "closed" =>
            /\ c \notin DOMAIN clientKeys
            /\ \A k \in DOMAIN invalidationTable : c \notin invalidationTable[k])
  /\ [][\A c \in Clients :
          exec[c].mode = "closed" =>
            /\ exec'[c] = exec[c]
            /\ txQueue'[c] = txQueue[c]
            /\ \A k \in Keys : goroutines'[c][k] <= goroutines[c][k]
            /\ StripPush(out'[c]) = StripPush(out[c])]_vars

\* a connection with tracking on was closed inside MULTI with a SET queued;
\* the key was written by the other connection only
C23_Witness ==
  /\ exec["c1"].mode = "closed"
  /\ tracking["c1"] /\ inTx["c1"]
  /\ txQueue["c1"] = <<Cmd("GET", "k1", ""), Cmd("SET", "k1", "v1")>>
  /\ "k1" \in DOMAIN store
  /\ goroutines["c1"]["k1"] = 0
  /\ used = 6

(* ---------------------------------------------------------------------- *)
(* SpecPushX: LPUSHX / RPUSHX against pushes and pops of the same key      *)
(* ---------------------------------------------------------------------- *)
PushXOps == {"LPUSHX", "RPUSHX"}

\* LPushX / RPushX is called with one new value
PushXCall(t, left) ==
  /\ task[t].pc = "idle"
  /\ hist.ops < MaxOps
  /\ hist.nextVal <= MaxVals
  /\ task' = [task EXCEPT ![t] =
                [IdleList EXCEPT !.pc = "exists",
                                 !.op = IF left THEN "LPUSHX" ELSE "RPUSHX",
                                 !.left = left,
                                 !.values = <<Value(hist.nextVal)>>]]
  /\ hist' = [hist EXCEPT !.ops = @ + 1, !.nextVal = @ + 1]
  /\ UNCHANGED <<txVars, shard, heap, itemPool, chan>>
  /\ UNCHANGED <<clock, pubsub>>

\* exists := d.Exists(key): 0 when absent, else d.LPush / d.RPush is called
ExistsKey(t) ==
  /\ task[t].pc = "exists"
  /\ IF shard = 0
     THEN task' = Return(t, "size", "", 0)
     ELSE task' = [task EXCEPT ![t] = [@ EXCEPT !.pc = "getOrCreate"]]
  /\ UNCHANGED <<txVars, shard, heap, itemPool, chan, hist>>
  /\ UNCHANGED <<clock, pubsub>>

NextPushX ==
  \/ \E t \in ListTasks, left \in BOOLEAN : PushXCall(t, left)
  \/ \E t \in ListTasks : ExistsKey(t)
  \/ \E t \in ListTasks, left \in BOOLEAN, n \in 1..MaxPush : PushCall(t, left, n)
  \/ \E t \in ListTasks, left \in BOOLEAN : PopCall(t, left, FALSE)
  \/ \E t \in ListTasks : GetListItem(t)
  \/ \E t \in ListTasks : Pop(t)
  \/ \E t \in ListTasks : CheckEmpty(t)
  \/ \E t \in ListTasks : Del(t)
  \/ \E t \in ListTasks : GetOrCreateLoad(t)
  \/ \E t \in ListTasks : Create(t)
  \/ \E t \in ListTasks : Push(t)

SpecPushX == InitList /\ [][NextPushX]_vars

\* C25: LPUSHX / RPUSHX never create the key: no step of such a call stores
\* an Item under a key that holds none, whatever pops and pushes run beside it.
C25_PushXNeverCreates ==
  [][\A t \in ListTasks :
       (task[t].op \in PushXOps /\ task'[t] # task[t] /\ shard = 0) => shard' = 0]_vars

(* ---------------------------------------------------------------------- *)
(* SpecEvict: the eviction loop, Set and Close; the clock counts seconds   *)
(* ---------------------------------------------------------------------- *)
ShardIds == {0, 1}
EvictKeys == {"a", "b", "c"}
\* ticks of the 1-second ticker
MaxTicks == 5
\* Set calls
MaxPuts == 2
\* evictSampleRate, scaled to the shards of the model
SampleRate == 1
\* the 5-minute rest of the background scan, in ticks
RestPeriod == 2

\* getShard: "a" and "b" share shard 0, "c" is in shard 1
EvictShardOf(k) == IF k = "c" THEN 1 ELSE 0

LenShards == Cardinality(ShardIds)

\* startEvictLoop's locals and position, and the Range in progress
NewLoop == [pc |-> "select", currentShard |-> 0, scanningActive |-> TRUE,
            lastScanTime |-> 0, mode |-> "", sidx |-> 0, todo |-> {},
            checked |-> 0, key |-> ""]

\* shard.Range starts on shard s
StartRange(l, mode, s) ==
  [l EXCEPT !.pc = "range", !.mode = mode, !.sidx = s, !.todo = DOMAIN shard[s],
            !.checked = 0, !.key = ""]

\* the ticker fires; its channel holds one tick
TickSecond ==
  /\ clock < MaxTicks
  /\ clock' = clock + 1
  /\ chan' = [chan EXCEPT !.tick = 1]
  /\ UNCHANGED <<txVars, shard, heap, itemPool, task, hist, pubsub>>

\* Set(key, value, duration) by a client of the store
EvictSet(k, d) ==
  /\ hist.sets < MaxPuts
  /\ shard' = [shard EXCEPT ![EvictShardOf(k)] =
                 Put(@, k, ExpItem("v1", IF d > 0 THEN clock + d ELSE 0))]
  /\ hist' = [hist EXCEPT !.sets = @ + 1]
  /\ UNCHANGED <<txVars, heap, itemPool, task, chan, clock, pubsub>>

\* case <-d.evictCtx.Done(): return, and the deferred wg.Done
SelectDone ==
  /\ task.loop.pc = "select"
  /\ chan.done
  /\ task' = [task EXCEPT !.loop.pc = "exited"]
  /\ UNCHANGED <<txVars, shard, heap, itemPool, chan, hist, clock, pubsub>>

\* case <-ticker.C: evictSample starts on the first shard
SelectTick ==
  /\ task.loop.pc = "select"
  /\ chan.tick = 1
  /\ chan' = [chan EXCEPT !.tick = 0]
  /\ task' = [task EXCEPT !.loop = StartRange(@, "sample", 0)]
  /\ hist' = [hist EXCEPT !.tickScans = 0]
  /\ UNCHANGED <<txVars, shard, heap, itemPool, clock, pubsub>>

\* the Range callback returned false, or no entry is left
RangeOver(l) == l.todo = {} \/ (l.mode = "sample" /\ l.checked >= SampleRate)

\* the Range callback on one entry: checked++ and the expiry test
RangeEntry ==
  /\ task.loop.pc = "range"
  /\ ~RangeOver(task.loop)
  /\ \E k \in task.loop.todo :
       LET l == [task.loop EXCEPT !.todo = @ \ {k}, !.checked = @ + 1]
           it == shard[l.sidx][k]
       IN task' = [task EXCEPT !.loop =
                     IF Expired(it.ExpiresAt, clock)
                     THEN [l EXCEPT !.pc = "delete", !.key = k]
                     ELSE l]
  /\ UNCHANGED <<txVars, shard, heap, itemPool, chan, hist, clock, pubsub>>

\* shard.LoadAndDelete(key), then NotifyObservers(key)
RangeDelete ==
  /\ task.loop.pc = "delete"
  /\ LET s == task.loop.sidx
         k == task.loop.key
     IN IF k \in DOMAIN shard[s]
        THEN /\ shard' = [shard EXCEPT ![s] = Restrict(@, DOMAIN @ \ {k})]
             /\ SetWorld(NotifyObservers(World, k))
             /\ hist' = [hist EXCEPT !.live = @ \/ ~Expired(shard[s][k].ExpiresAt, clock)]
        ELSE UNCHANGED <<shard, worldVars, hist>>
  /\ task' = [task EXCEPT !.loop.pc = "range", !.loop.key = ""]
  /\ UNCHANGED <<watching, inTx, txQueue, out, exec, used, seed, touched, last>>
  /\ UNCHANGED <<heap, itemPool, chan, clock, pubsub>>

RestOverAlways(now, lastScanTime) == TRUE

\* time.Since(lastScanTime) >= 5*time.Minute
RestOver(now, lastScanTime) == now - lastScanTime >= RestPeriod

\* a Range is over: the next shard of evictSample, then Strategy 2, and after
\* evictScanShard the round-robin pointer
RangeEnd ==
  /\ task.loop.pc = "range"
  /\ RangeOver(task.loop)
  /\ LET l == task.loop
     IN IF l.mode = "sample"
        THEN IF l.sidx + 1 < LenShards
             THEN /\ task' = [task EXCEPT !.loop = StartRange(l, "sample", l.sidx + 1)]
                  /\ UNCHANGED hist
             ELSE IF l.scanningActive
                  THEN /\ task' = [task EXCEPT !.loop = StartRange(l, "scan", l.currentShard)]
                       /\ hist' = [hist EXCEPT !.scanned = l.currentShard,
                                               !.tickScans = @ + 1]
                  ELSE /\ task' = [task EXCEPT !.loop =
                                     [l EXCEPT !.pc = "select", !.mode = "", !.todo = {},
                                               !.checked = 0,
                                               !.scanningActive = RestOver(clock, l.lastScanTime)]]
                       /\ UNCHANGED hist
        ELSE LET done == l.currentShard + 1 >= LenShards
             IN /\ task' = [task EXCEPT !.loop =
                              [l EXCEPT !.pc = "select", !.mode = "", !.todo = {},
                                        !.checked = 0,
                                        !.currentShard = IF done THEN 0 ELSE @ + 1,
                                        !.scanningActive = ~done,
                                        !.lastScanTime = IF done THEN clock ELSE @]]
                /\ hist' = [hist EXCEPT !.cycleDone = IF done THEN clock ELSE @]
  /\ UNCHANGED <<txVars, shard, heap, itemPool, chan, clock, pubsub>>

\* Close: d.evictCancel()
CloseCancel ==
  /\ task.close = "idle"
  /\ chan' = [chan EXCEPT !.done = TRUE]
  /\ task' = [task EXCEPT !.close = "wait"]
  /\ UNCHANGED <<txVars, shard, heap, itemPool, hist, clock, pubsub>>

WgWaitNone == TRUE

\* d.wg.Wait() returns once startEvictLoop's deferred wg.Done has run
WgWait == task.loop.pc = "exited"

\* Close: d.wg.Wait(), then WorkerPool.Release() and the return
CloseReturn ==
  /\ task.close = "wait"
  /\ WgWait
  /\ task' = [task EXCEPT !.close = "returned"]
  /\ UNCHANGED <<txVars, shard, heap, itemPool, chan, hist, clock, pubsub>>

\* New: empty shards, the context, wg.Add(1) and go d.startEvictLoop()
InitEvict ==
  /\ InitConn
  /\ seed = "same"
  /\ shard = [s \in ShardIds |-> <<>>]
  /\ heap = <<>>
  /\ itemPool = {}
  /\ task = [loop |-> NewLoop, close |-> "idle"]
  /\ chan = [tick |-> 0, done |-> FALSE]
  /\ hist = [sets |-> 0, scanned |-> 0 - 1, tickScans |-> 0, cycleDone |-> 0 - 1,
             live |-> FALSE]
  /\ clock = 0
  /\ pubsub = NewPubSub

LoopStep == SelectTick \/ RangeEntry \/ RangeDelete \/ RangeEnd

NextEvict ==
  \/ TickSecond
  \/ \E k \in EvictKeys, d \in Durations : EvictSet(k, d)
  \/ SelectDone
  \/ SelectTick
  \/ RangeEntry
  \/ RangeDelete
  \/ RangeEnd
  \/ CloseCancel
  \/ CloseReturn

SpecEvict == InitEvict /\ [][NextEvict]_vars

\* the goroutines are scheduled; select takes a ready case at random, so the
\* Done case is not passed over for ever
SpecEvictFair ==
  /\ SpecEvict
  /\ WF_vars(LoopStep)
  /\ SF_vars(SelectDone)
  /\ WF_vars(CloseReturn)

C29_SweepRoundRobin ==
  /\ [](hist.tickScans <= 1)
  /\ [][(task'.loop.mode = "scan" /\ task.loop.mode # "scan") =>
          /\ hist'.scanned = (hist.scanned + 1) % LenShards
          /\ task'.loop.sidx = hist'.scanned
          /\ task'.loop.todo = DOMAIN shard[hist'.scanned]
          /\ hist.scanned = LenShards - 1 =>
               /\ hist.cycleDone >= 0
               /\ clock >= hist.cycleDone + RestPeriod]_vars
  /\ [][(task.loop.mode = "scan" /\ task'.loop.mode # "scan") =>
          task.loop.todo = {}]_vars
  /\ [][chan'.tick < chan.tick =>
          /\ task'.loop.pc = "range"
          /\ task'.loop.mode = "sample"
          /\ task'.loop.sidx = 0]_vars

\* the second cycle has started on shard 0, after a sampling pass that ran
\* with the scan at rest
C29_Witness ==
  /\ hist.cycleDone >= 0
  /\ task.loop.mode = "scan"
  /\ hist.scanned = 0
  /\ clock = hist.cycleDone + RestPeriod + 1

\* C30: a sampling pass examines at most SampleRate entries of a shard, and
\* the eviction loop removes only entries whose ExpiresAt has elapsed.
C30_SampleRemovesExpired ==
  /\ task.loop.mode = "sample" => task.loop.checked <= SampleRate
  /\ ~hist.live

(* ---------------------------------------------------------------------- *)
(* SpecAdd: Incr, Decr, IncrBy and DecrBy of one caller on one key, with    *)
(* the machine integer at a scaled width                                   *)
(* ---------------------------------------------------------------------- *)
\* width of the machine integer that stands for int64
IntBits == 4
MaxAddSets == 2
MaxAddClock == 2

AddKey == "k1"

MinInt64 == 0 - 2^(IntBits - 1)
MaxInt64 == 2^(IntBits - 1) - 1
Int64 == MinInt64..MaxInt64

\* the result of an int64 addition or negation: the low IntBits bits, signed
Wrap64(i) == ((i - MinInt64) % 2^IntBits) + MinInt64

\* strconv.FormatInt(i, 10)
FormatInt64(i) == ToString(i)

\* strconv.ParseInt(s, 10, 64): an optional sign and decimal digits, in range
ParsesAs(s, i) == s = ToString(i) \/ (i >= 0 /\ s = "+" \o ToString(i))
ParseOk64(s) == \E i \in Int64 : ParsesAs(s, i)
ParseInt64(s) == CHOOSE i \in Int64 : ParsesAs(s, i)

\* the amounts of INCRBY and DECRBY
AddAmounts == {2, 0 - 3, MaxInt64, MinInt64}

\* the strings a client stores under the key
AddStrs ==
  {FormatInt64(i) : i \in Int64} \cup
  {"+1", FormatInt64(MaxInt64 + 1), FormatInt64(MinInt64 - 1), "abc", ""}

\* IncrBy(key, amount) run to its return by a single caller: the load, the
\* expiry test, the type test and the parse, then the add, the format and the
\* swap. ret is the pair (value, error) and after the shard it leaves.
IncrByResult(m, now, amount) ==
  LET loaded == AddKey \in DOMAIN m
      oldItem == m[AddKey]
      expired == loaded /\ Expired(oldItem.ExpiresAt, now)
      parsed == loaded /\ ~expired
  IN IF parsed /\ oldItem.Type # TypeString
     THEN [after |-> m, value |-> 0, err |-> "NOT_INTEGER"]
     ELSE IF parsed /\ ~ParseOk64(oldItem.Str)
     THEN [after |-> m, value |-> 0, err |-> "NOT_INTEGER"]
     ELSE LET current == IF parsed THEN ParseInt64(oldItem.Str) ELSE 0
              expiresAt == IF parsed THEN oldItem.ExpiresAt ELSE 0
              newValue == Wrap64(current + amount)
          IN [after |-> Put(m, AddKey, ExpItem(FormatInt64(newValue), expiresAt)),
              value |-> newValue, err |-> ""]

\* one call of the INCR family; delta is the change the caller asked for
AddCall(amount, delta) ==
  /\ LET r == IncrByResult(shard, clock, amount)
     IN /\ shard' = r.after
        /\ hist' = [hist EXCEPT !.calls = (@ + 1) % 2, !.delta = delta,
                                !.value = r.value, !.err = r.err]
  /\ UNCHANGED <<txVars, heap, itemPool, task, chan, clock, pubsub>>

\* Incr(key) = IncrBy(key, 1)
AddIncr == AddCall(1, 1)

\* Decr(key) = IncrBy(key, -1)
AddDecr == AddCall(0 - 1, 0 - 1)

\* IncrBy(key, amount)
AddIncrBy(amount) == AddCall(amount, amount)

\* DecrBy(key, amount) = IncrBy(key, -amount)
AddDecrBy(amount) == AddCall(Wrap64(0 - amount), 0 - amount)

\* Set(key, value, duration)
AddSet(v, d) ==
  /\ hist.sets < MaxAddSets
  /\ shard' = Put(shard, AddKey, ExpItem(v, IF d > 0 THEN clock + d ELSE 0))
  /\ hist' = [hist EXCEPT !.sets = @ + 1]
  /\ UNCHANGED <<txVars, heap, itemPool, task, chan, clock, pubsub>>

\* RPush(key, value) on the absent key
AddRPush ==
  /\ hist.sets < MaxAddSets
  /\ AddKey \notin DOMAIN shard
  /\ shard' = Put(shard, AddKey, [Type |-> TypeList, Str |-> "", ExpiresAt |-> 0])
  /\ hist' = [hist EXCEPT !.sets = @ + 1]
  /\ UNCHANGED <<txVars, heap, itemPool, task, chan, clock, pubsub>>

\* time passes
AddTick ==
  /\ clock < MaxAddClock
  /\ clock' = clock + 1
  /\ UNCHANGED <<txVars, shard, heap, itemPool, task, chan, hist, pubsub>>

InitAdd ==
  /\ InitConn
  /\ seed = "same"
  /\ shard = <<>>
  /\ heap = <<>>
  /\ itemPool = {}
  /\ task = <<>>
  /\ chan = <<>>
  /\ hist = [sets |-> 0, calls |-> 0, delta |-> 0, value |-> 0, err |-> ""]
  /\ clock = 0
  /\ pubsub = NewPubSub

NextAdd ==
  \/ AddIncr
  \/ AddDecr
  \/ \E amount \in AddAmounts : AddIncrBy(amount)
  \/ \E amount \in AddAmounts : AddDecrBy(amount)
  \/ \E v \in AddStrs, d \in Durations : AddSet(v, d)
  \/ AddRPush
  \/ AddTick

SpecAdd == InitAdd /\ [][NextAdd]_vars

\* the value a call of the INCR family starts from: the parsed string of a
\* live Item, 0 for an absent or expired key
AddLive(m, now) == AddKey \in DOMAIN m /\ ~Expired(m[AddKey].ExpiresAt, now)
AddIsString(m) == m[AddKey].Type = TypeString
AddCurrent(m, now) == IF AddLive(m, now) THEN ParseInt64(m[AddKey].Str) ELSE 0

\* the stored string does not parse as a signed integer of the width
AddNoParse(m, now) ==
  AddLive(m, now) /\ AddIsString(m) /\ ~ParseOk64(m[AddKey].Str)

\* the stored string parses, or there is none
AddParses(m, now) ==
  ~AddLive(m, now) \/ (AddIsString(m) /\ ParseOk64(m[AddKey].Str))

\* C26: a call of INCR / DECR / INCRBY / DECRBY fails with NOT_INTEGER and
\* leaves the Item as it was when the stored string does not parse or when
\* current + delta is outside the signed range; otherwise it stores the
\* decimal form of current + delta with the same ExpiresAt and returns the sum.
C26_IncrFamilyContract ==
  [][hist'.calls # hist.calls =>
       /\ AddNoParse(shard, clock) =>
            (hist'.err = "NOT_INTEGER" /\ shard' = shard)
       /\ AddParses(shard, clock) =>
            LET sum == AddCurrent(shard, clock) + hist'.delta
            IN IF sum \notin Int64
               THEN hist'.err = "NOT_INTEGER" /\ shard' = shard
               ELSE /\ hist'.err = ""
                    /\ hist'.value = sum
                    /\ shard'[AddKey].Str = FormatInt64(sum)
                    /\ AddLive(shard, clock) =>
                         shard'[AddKey].ExpiresAt = shard[AddKey].ExpiresAt]_vars

\* the same contract on the calls whose sum stays in the signed range
AddInRangeContract ==
  [][hist'.calls # hist.calls =>
       /\ AddNoParse(shard, clock) =>
            (hist'.err = "NOT_INTEGER" /\ shard' = shard)
       /\ AddParses(shard, clock) =>
            LET sum == AddCurrent(shard, clock) + hist'.delta
            IN sum \in Int64 =>
                 /\ hist'.err = ""
                 /\ hist'.value = sum
                 /\ shard'[AddKey].Str = FormatInt64(sum)
                 /\ AddLive(shard, clock) =>
                      shard'[AddKey].ExpiresAt = shard[AddKey].ExpiresAt]_vars

\* the queue run in queue order from w: the world it leaves and the replies
RECURSIVE SeqRun(_, _, _)
SeqRun(w, c, queue) ==
  IF queue = <<>> THEN [w |-> w, reply |-> <<>>]
  ELSE LET r == RunCommand(w, c, Head(queue))
           rest == SeqRun(r.w, c, Tail(queue))
       IN [w |-> rest.w, reply |-> r.reply \o rest.reply]

\* the keys a queued command names
KeysOf(cmd) ==
  IF cmd.name = "EXISTS" THEN {cmd.key, cmd.val} \ {""} ELSE {cmd.key} \ {""}

\* C27: in a parallel EXEC each shard's goroutine takes its commands in queue
\* order, and with no other client active the replies of an EXEC and the store
\* it leaves are those of the queue run in queue order from the store the EXEC
\* found, queued EXISTS and TTL included.
C27_ParallelEqualsSequential ==
  [][/\ \A i, j \in 1..Len(exec["c1"].queue) :
          ( /\ exec["c1"].mode = "par"
            /\ i < j
            /\ GetShardIndex(exec["c1"].queue[i].key) = GetShardIndex(exec["c1"].queue[j].key)
            /\ exec'["c1"].ran[j] > 0 )
          => exec["c1"].ran[i] > 0 \/ exec'["c1"].mode # "par"
     /\ (last["c1"] = "running" /\ last'["c1"] = "array") =>
          LET q == exec["c1"].queue
              r == SeqRun([World EXCEPT !.store = hist.start], "c1", q)
          IN /\ out'["c1"] = <<WriteArray(Len(q))>> \o r.reply
             /\ store' = r.w.store]_vars

\* the equivalence alone, on the queues whose commands each name one key
ParSingleKeyEquivalence ==
  [][(last["c1"] = "running" /\ last'["c1"] = "array"
        /\ \A i \in 1..Len(exec["c1"].queue) :
             Cardinality(KeysOf(exec["c1"].queue[i])) = 1) =>
       LET q == exec["c1"].queue
           r == SeqRun([World EXCEPT !.store = hist.start], "c1", q)
       IN /\ out'["c1"] = <<WriteArray(Len(q))>> \o r.reply
          /\ store' = r.w.store]_vars

(* ---------------------------------------------------------------------- *)
(* SpecLock: the locks taken by the connection handlers (SET, GET and      *)
(* CLIENT TRACKING ON) and by a caller of RPush and LTrim, on one key      *)
(* ---------------------------------------------------------------------- *)
ApiTask == "api"
LockTasks == Clients \cup {ApiTask}
MaxLockCalls == 2

\* d.mu, Item.Mu of the key's Item, and the handler's own Client.mu
RegistryLock == "registry"
ItemLock == "item"
WriterMutex == "writer"

\* the acquire order: registry lock, shard map, Item lock, writer mutex
LockRank(l) == CASE l = RegistryLock -> 1 [] l = ItemLock -> 3 [] l = WriterMutex -> 4

NoKey == [kind |-> "none", size |-> 0]
StrKey == [kind |-> "string", size |-> 0]
ListOf(n) == [kind |-> "list", size |-> n]

\* sync.Mutex.Lock returns when no goroutine holds the mutex
LockFree(l) == \A t \in LockTasks : l \notin task[t].held

IdleLock == [pc |-> "idle", held |-> {}, next |-> "", calls |-> 0, start |-> 0,
             stop |-> 0]

lockRest == <<txVars, heap, itemPool, chan, clock, pubsub>>

\* execute, Normal Execution: mu.Lock() with the unlock deferred, then the
\* switch on the command
HandlerRead(h, cmd) ==
  /\ task[h].pc = "idle"
  /\ task[h].calls < MaxLockCalls
  /\ h \notin hist.pushing
  /\ task' = [task EXCEPT ![h] =
                [@ EXCEPT !.calls = @ + 1,
                          !.held = {WriterMutex},
                          !.next = "reply",
                          !.pc = CASE cmd = "TRACKING" -> "reply"
                                   [] cmd = "GET" -> IF hist.tracking[h] THEN "trackLock"
                                                     ELSE "reply"
                                   [] cmd = "SET" -> "store"]]
  /\ hist' = [hist EXCEPT !.tracking[h] = @ \/ cmd = "TRACKING"]
  /\ UNCHANGED <<shard, lockRest>>

\* Track: d.mu.Lock()
TrackLock(t) ==
  /\ task[t].pc = "trackLock"
  /\ LockFree(RegistryLock)
  /\ task' = [task EXCEPT ![t] = [@ EXCEPT !.held = @ \cup {RegistryLock}, !.pc = "track"]]
  /\ UNCHANGED <<shard, hist, lockRest>>

\* Track: the table entry, and the deferred d.mu.Unlock()
TrackRun(t) ==
  /\ task[t].pc = "track"
  /\ hist' = [hist EXCEPT !.tracked = @ \cup {t}]
  /\ task' = [task EXCEPT ![t] = [@ EXCEPT !.held = @ \ {RegistryLock}, !.pc = "reply"]]
  /\ UNCHANGED <<shard, lockRest>>

\* Set: shard.Store(key, item)
SetStore(t) ==
  /\ task[t].pc = "store"
  /\ shard' = StrKey
  /\ task' = [task EXCEPT ![t] = [@ EXCEPT !.pc = "notifyLock"]]
  /\ UNCHANGED <<hist, lockRest>>

\* NotifyObservers: d.mu.Lock()
NotifyLock(t) ==
  /\ task[t].pc = "notifyLock"
  /\ LockFree(RegistryLock)
  /\ task' = [task EXCEPT ![t] = [@ EXCEPT !.held = @ \cup {RegistryLock}, !.pc = "notify"]]
  /\ UNCHANGED <<shard, hist, lockRest>>

\* NotifyObservers: o.Invalidate(key) for every observer of the key, each
\* starting its push goroutine, the table entry deleted, d.mu.Unlock()
NotifyRun(t) ==
  /\ task[t].pc = "notify"
  /\ hist' = [hist EXCEPT !.tracked = {},
                          !.pushes = [o \in Clients |->
                                        IF o \in hist.tracked THEN 1 ELSE @[o]]]
  /\ task' = [task EXCEPT ![t] = [@ EXCEPT !.held = @ \ {RegistryLock},
                                           !.pc = task[t].next]]
  /\ UNCHANGED <<shard, lockRest>>

\* the reply is written and the deferred mu.Unlock() runs
Reply(h) ==
  /\ task[h].pc = "reply"
  /\ task' = [task EXCEPT ![h] = [@ EXCEPT !.held = {}, !.pc = "idle"]]
  /\ UNCHANGED <<shard, hist, lockRest>>

\* the goroutine of Invalidate: c.mu.Lock()
PushGoroutineLock(o) ==
  /\ hist.pushes[o] > 0
  /\ o \notin hist.pushing
  /\ WriterMutex \notin task[o].held
  /\ hist' = [hist EXCEPT !.pushes[o] = 0, !.pushing = @ \cup {o}]
  /\ UNCHANGED <<shard, task, lockRest>>

\* the goroutine of Invalidate: the push frame, and the deferred c.mu.Unlock()
PushGoroutineUnlock(o) ==
  /\ o \in hist.pushing
  /\ hist' = [hist EXCEPT !.pushing = @ \ {o}]
  /\ UNCHANGED <<shard, task, lockRest>>

\* RPush(key, value) is called
RPushCall(t) ==
  /\ task[t].pc = "idle"
  /\ task[t].calls < MaxLockCalls
  /\ task' = [task EXCEPT ![t] = [@ EXCEPT !.calls = @ + 1, !.pc = "getOrCreate"]]
  /\ UNCHANGED <<shard, hist, lockRest>>

\* getOrCreateListItem: the Item of the key, created and announced when absent
GetOrCreate(t) ==
  /\ task[t].pc = "getOrCreate"
  /\ CASE shard.kind = "none" ->
            /\ shard' = ListOf(0)
            /\ task' = [task EXCEPT ![t] = [@ EXCEPT !.pc = "notifyLock",
                                                     !.next = "pushLock"]]
       [] shard.kind = "string" ->
            /\ task' = [task EXCEPT ![t] = [@ EXCEPT !.pc = "idle"]]
            /\ UNCHANGED shard
       [] shard.kind = "list" ->
            /\ task' = [task EXCEPT ![t] = [@ EXCEPT !.pc = "pushLock"]]
            /\ UNCHANGED shard
  /\ UNCHANGED <<hist, lockRest>>

\* RPush: item.Mu.Lock()
PushLock(t) ==
  /\ task[t].pc = "pushLock"
  /\ LockFree(ItemLock)
  /\ task' = [task EXCEPT ![t] = [@ EXCEPT !.held = @ \cup {ItemLock}, !.pc = "push"]]
  /\ UNCHANGED <<shard, hist, lockRest>>

\* RPush: item.rpush and item.Mu.Unlock()
LockedPush(t) ==
  /\ task[t].pc = "push"
  /\ shard' = IF shard.kind = "list" THEN ListOf(shard.size + 1) ELSE shard
  /\ task' = [task EXCEPT ![t] = [@ EXCEPT !.held = @ \ {ItemLock}, !.pc = "idle"]]
  /\ UNCHANGED <<hist, lockRest>>

\* LTrim(key, start, stop) is called
LTrimCall(t, start, stop) ==
  /\ task[t].pc = "idle"
  /\ task[t].calls < MaxLockCalls
  /\ task' = [task EXCEPT ![t] = [@ EXCEPT !.calls = @ + 1, !.pc = "getListItem",
                                           !.start = start, !.stop = stop]]
  /\ UNCHANGED <<shard, hist, lockRest>>

\* getListItem: nil for an absent key, ErrWrongType for another type
LTrimGet(t) ==
  /\ task[t].pc = "getListItem"
  /\ task' = [task EXCEPT ![t] = [@ EXCEPT !.pc = IF shard.kind = "list" THEN "trimLock"
                                                  ELSE "idle"]]
  /\ UNCHANGED <<shard, hist, lockRest>>

\* LTrim: item.Mu.Lock() with the unlock deferred
LTrimLock(t) ==
  /\ task[t].pc = "trimLock"
  /\ LockFree(ItemLock)
  /\ task' = [task EXCEPT ![t] = [@ EXCEPT !.held = @ \cup {ItemLock}, !.pc = "trim"]]
  /\ UNCHANGED <<shard, hist, lockRest>>

\* LTrim: the range is normalised; an empty range clears the list and goes on
\* to d.Del(key), any other keeps the elements start..stop and returns
LTrimRun(t) ==
  /\ task[t].pc = "trim"
  /\ LET size == shard.size
         start == IF task[t].start < 0 THEN (IF size + task[t].start > 0
                                             THEN size + task[t].start ELSE 0)
                  ELSE task[t].start
         stop0 == IF task[t].stop < 0 THEN size + task[t].stop ELSE task[t].stop
         stop == IF stop0 >= size THEN size - 1 ELSE stop0
     IN IF start > stop
        THEN /\ shard' = IF shard.kind = "list" THEN ListOf(0) ELSE shard
             /\ task' = [task EXCEPT ![t] = [@ EXCEPT !.pc = "del"]]
        ELSE /\ shard' = IF shard.kind = "list" THEN ListOf(stop - start + 1) ELSE shard
             /\ task' = [task EXCEPT ![t] = [@ EXCEPT !.held = @ \ {ItemLock},
                                                      !.pc = "idle"]]
  /\ UNCHANGED <<hist, lockRest>>

\* Del: shard.LoadAndDelete(key), then NotifyObservers when a value was loaded
LTrimDel(t) ==
  /\ task[t].pc = "del"
  /\ IF shard.kind # "none"
     THEN /\ shard' = NoKey
          /\ task' = [task EXCEPT ![t] = [@ EXCEPT !.pc = "notifyLock", !.next = "unlock"]]
     ELSE /\ task' = [task EXCEPT ![t] = [@ EXCEPT !.held = @ \ {ItemLock}, !.pc = "idle"]]
          /\ UNCHANGED shard
  /\ UNCHANGED <<hist, lockRest>>

\* LTrim returns: the deferred item.Mu.Unlock()
LTrimUnlock(t) ==
  /\ task[t].pc = "unlock"
  /\ task' = [task EXCEPT ![t] = [@ EXCEPT !.held = @ \ {ItemLock}, !.pc = "idle"]]
  /\ UNCHANGED <<shard, hist, lockRest>>

InitLock ==
  /\ InitConn
  /\ seed = "same"
  /\ shard = NoKey
  /\ heap = <<>>
  /\ itemPool = {}
  /\ task = [t \in LockTasks |-> IdleLock]
  /\ chan = <<>>
  /\ hist = [tracking |-> [c \in Clients |-> FALSE], tracked |-> {},
             pushes |-> [c \in Clients |-> 0], pushing |-> {}]
  /\ clock = 0
  /\ pubsub = NewPubSub

NextLock ==
  \/ \E h \in Clients, cmd \in {"TRACKING", "GET", "SET"} : HandlerRead(h, cmd)
  \/ \E h \in Clients : TrackLock(h)
  \/ \E h \in Clients : TrackRun(h)
  \/ \E h \in Clients : SetStore(h)
  \/ \E t \in LockTasks : NotifyLock(t)
  \/ \E t \in LockTasks : NotifyRun(t)
  \/ \E h \in Clients : Reply(h)
  \/ \E o \in Clients : PushGoroutineLock(o)
  \/ \E o \in Clients : PushGoroutineUnlock(o)
  \/ RPushCall(ApiTask)
  \/ GetOrCreate(ApiTask)
  \/ PushLock(ApiTask)
  \/ LockedPush(ApiTask)
  \/ \E start \in {0, 1}, stop \in {0 - 1, 0} : LTrimCall(ApiTask, start, stop)
  \/ LTrimGet(ApiTask)
  \/ LTrimLock(ApiTask)
  \/ LTrimRun(ApiTask)
  \/ LTrimDel(ApiTask)
  \/ LTrimUnlock(ApiTask)

SpecLock == InitLock /\ [][NextLock]_vars

\* the locks a step of t acquires
Acquired(t) == task'[t].held \ task[t].held

\* C28: a goroutine acquires a lock only while holding none that comes later
\* in the order registry lock, shard map, Item lock, writer mutex, so the
\* registry lock is never taken with an Item lock or a writer mutex held, and
\* Invalidate is never called by a goroutine that holds an Item lock.
C28_LockOrder ==
  [][\A t \in LockTasks :
       /\ \A l \in Acquired(t), m \in task[t].held : LockRank(m) < LockRank(l)
       /\ (task[t].pc = "notify" /\ task'[t].pc # "notify" /\ hist.tracked # {})
            => ItemLock \notin task[t].held]_vars

\* the same order on the caller of the list API alone
ApiLockOrder ==
  [][\A l \in Acquired(ApiTask), m \in task[ApiTask].held : LockRank(m) < LockRank(l)]_vars

(* ---------------------------------------------------------------------- *)
(* SpecZRange: ZRangeByScore and ZRevRangeByScore on a sorted set built by *)
(* ZAdd and ZRem with numeric scores                                       *)
(* ---------------------------------------------------------------------- *)
MaxRangeOps == 3

RangeScores == {Num(1), Num(2), Num(3)}
RangeBounds == {Num(0), Num(2), Num(4)}
Offsets == {0, 1}
Counts == {0 - 1, 1}

\* zslFirstInRange: down the levels past the nodes with score < min, then
\* the next node of level 0, nil when there is none or its score > max
RECURSIVE FirstWalk(_, _, _, _)
FirstWalk(z, x, i, min) ==
  LET f == z.nodes[x].level[i].forward
  IN IF f # 0 /\ FLt(z.nodes[f].score, min) THEN FirstWalk(z, f, i, min)
     ELSE IF i > 0 THEN FirstWalk(z, x, i - 1, min) ELSE x

zslFirstInRange(z, min, max) ==
  LET x == z.nodes[FirstWalk(z, z.header, z.level - 1, min)].level[0].forward
  IN IF x = 0 \/ FGt(z.nodes[x].score, max) THEN 0 ELSE x

\* zslLastInRange: down the levels past the nodes with score <= max; the node
\* the walk stops at, nil when its score < min
RECURSIVE LastWalk(_, _, _, _)
LastWalk(z, x, i, max) ==
  LET f == z.nodes[x].level[i].forward
  IN IF f # 0 /\ (FLt(z.nodes[f].score, max) \/ FEq(z.nodes[f].score, max))
     THEN LastWalk(z, f, i, max)
     ELSE IF i > 0 THEN LastWalk(z, x, i - 1, max) ELSE x

zslLastInRange(z, min, max) ==
  LET x == LastWalk(z, z.header, z.level - 1, max)
  IN IF x = 0 \/ FLt(z.nodes[x].score, min) THEN 0 ELSE x

\* x.backward or x.level[0].forward
StepFrom(z, x, reverse) ==
  IF reverse THEN z.nodes[x].backward ELSE z.nodes[x].level[0].forward

\* x is nil or its score has left the range on the side the walk goes to
OutOfRange(z, x, min, max, reverse) ==
  x = 0 \/ (IF reverse THEN FLt(z.nodes[x].score, min) ELSE FGt(z.nodes[x].score, max))

\* the offset loop: nil when a step leaves the range
RECURSIVE SkipOffset(_, _, _, _, _, _)
SkipOffset(z, x, offset, min, max, reverse) ==
  IF offset = 0 THEN x
  ELSE LET y == StepFrom(z, x, reverse)
       IN IF OutOfRange(z, y, min, max, reverse) THEN 0
          ELSE SkipOffset(z, y, offset - 1, min, max, reverse)

\* the collecting loop: members while x is in range and fewer than limit
RECURSIVE Collect(_, _, _, _, _, _)
Collect(z, x, limit, min, max, reverse) ==
  IF limit <= 0 \/ OutOfRange(z, x, min, max, reverse) THEN <<>>
  ELSE <<z.nodes[x].member>>
         \o Collect(z, StepFrom(z, x, reverse), limit - 1, min, max, reverse)

\* zrangeByScoreGeneric on the sorted set zs, withScores false
zrangeByScoreGeneric(zs, min, max, offset, count, reverse) ==
  IF count = 0 THEN <<>>
  ELSE LET z == zs.zsl
           x == IF reverse THEN zslLastInRange(z, min, max)
                ELSE zslFirstInRange(z, min, max)
           y == IF x = 0 THEN 0 ELSE SkipOffset(z, x, offset, min, max, reverse)
       IN IF y = 0 THEN <<>>
          ELSE Collect(z, y, IF count < 0 THEN z.length ELSE count, min, max, reverse)

\* ZRangeByScore(key, min, max, false, offset, count) and ZRevRangeByScore
ZRangeByScore(min, max, offset, count, reverse) ==
  /\ hist.asked = 0
  /\ hist' = [hist EXCEPT
                !.asked = 1 - @,
                !.query = [min |-> min, max |-> max, offset |-> offset,
                           count |-> count, reverse |-> reverse],
                !.result = IF shard = 0 THEN <<>>
                           ELSE zrangeByScoreGeneric(heap[shard].ZSet, min, max,
                                                     offset, count, reverse)]
  /\ UNCHANGED <<txVars, shard, heap, itemPool, task, chan, clock, pubsub>>

NoQuery == [min |-> Num(0), max |-> Num(0), offset |-> 0, count |-> 0, reverse |-> FALSE]

\* the set is built, then asked once
RangeCount == hist.ops < MaxRangeOps /\ hist.asked = 0

InitZRange ==
  /\ InitConn
  /\ seed = "same"
  /\ shard = 0
  /\ heap = <<>>
  /\ itemPool = {}
  /\ task = <<>>
  /\ chan = <<>>
  /\ hist = [ops |-> 0, asked |-> 0, query |-> NoQuery, result |-> <<>>]
  /\ clock = 0
  /\ pubsub = NewPubSub

NextZRange ==
  \/ \E sc \in RangeScores, m \in Members, l \in 1..MaxLevel : RangeCount /\ ZAdd(sc, m, l)
  \/ \E m \in Members : RangeCount /\ ZRem(<<m>>)
  \/ \E min \in RangeBounds, max \in RangeBounds, offset \in Offsets, count \in Counts,
        reverse \in BOOLEAN : ZRangeByScore(min, max, offset, count, reverse)

SpecZRange == InitZRange /\ [][NextZRange]_vars

\* the members of the dictionary d with min <= score <= max
InScoreRange(d, min, max) ==
  {m \in DOMAIN d : ~FLt(d[m], min) /\ ~FGt(d[m], max) /\ ~d[m].nan}

\* the members S of d in ascending (score, member) order
RECURSIVE Ascending(_, _)
Ascending(d, S) ==
  IF S = {} THEN <<>>
  ELSE LET m == CHOOSE x \in S : \A y \in S \ {x} :
                  FLt(d[x], d[y]) \/ (FEq(d[x], d[y]) /\ StrLt(x, y))
       IN <<m>> \o Ascending(d, S \ {m})

RECURSIVE ReverseSeq(_)
ReverseSeq(q) == IF q = <<>> THEN <<>> ELSE ReverseSeq(Tail(q)) \o <<Head(q)>>

\* q without its first n elements, then at most count of the rest (all of
\* them for a negative count)
Window(q, n, count) ==
  LET rest == IF n >= Len(q) THEN <<>> ELSE SubSeq(q, n + 1, Len(q))
  IN IF count < 0 \/ count >= Len(rest) THEN rest ELSE SubSeq(rest, 1, count)

ExpectedRange(d, q) ==
  LET asc == Ascending(d, InScoreRange(d, q.min, q.max))
  IN Window(IF q.reverse THEN ReverseSeq(asc) ELSE asc, q.offset, q.count)

\* the dictionary of the sorted set under the key, empty when the key is absent
RangeDict == IF shard = 0 THEN <<>> ELSE heap[shard].ZSet.dict

\* C31: ZRANGEBYSCORE returns the members with min <= score <= max in
\* ascending (score, member) order and ZREVRANGEBYSCORE the same in descending
\* order, less the first offset of them and at most count; the result is empty
\* when no score lies in the range, and it names only members of the set.
C31_RangeByScore ==
  [][hist'.asked # hist.asked =>
       /\ hist'.result = ExpectedRange(RangeDict, hist'.query)
       /\ \A i \in 1..Len(hist'.result) : hist'.result[i] \in DOMAIN RangeDict]_vars

\* the same for ZRANGEBYSCORE alone
ForwardRangeByScore ==
  [][(hist'.asked # hist.asked /\ ~hist'.query.reverse) =>
       hist'.result = ExpectedRange(RangeDict, hist'.query)]_vars

\* C32: a rejected XADD changes nothing: the entries and lastID of the stream
\* are what they were, and a key that was absent is still absent.
C32_RejectedXAddLeavesStore ==
  [][(hist'.ops # hist.ops /\ hist'.last.op = "XADD" /\ ~hist'.last.ok) =>
       /\ shard = 0 => shard' = 0
       /\ shard # 0 => (shard' = shard /\ heap'[shard].Stream = heap[shard].Stream)]_vars

\* the same on a key that holds a stream
RejectedXAddKeepsStream ==
  [][(hist'.ops # hist.ops /\ hist'.last.op = "XADD" /\ ~hist'.last.ok /\ shard # 0) =>
       (shard' = shard /\ heap'[shard].Stream = heap[shard].Stream)]_vars

(* ---------------------------------------------------------------------- *)
(* SpecTtl: the TTL command on one key, with Set and the passing of time;  *)
(* time is counted in units of which SecondUnits make a second             *)
(* ---------------------------------------------------------------------- *)
\* time.Second in the units of the clock
SecondUnits == 4
MaxTtlSets == 2
MaxTtlClock == 9

TtlKey == "k1"
TtlDurations == {0, SecondUnits, 2 * SecondUnits}

\* int64(f) of a float64 that is a ratio: the quotient truncated towards zero
TruncDiv(a, b) == IF a >= 0 THEN a \div b ELSE 0 - ((0 - a) \div b)

\* int64(ttl.Seconds())
DurationSeconds(d) == TruncDiv(d, SecondUnits)

\* d.TTL(key): the time.Duration returned and the shard it leaves
TTL(m, now) ==
  IF TtlKey \notin DOMAIN m THEN [d |-> 0 - 2, after |-> m]
  ELSE IF m[TtlKey].ExpiresAt = 0 THEN [d |-> 0 - 1, after |-> m]
  ELSE IF m[TtlKey].ExpiresAt - now < 0
       THEN [d |-> 0 - 2, after |-> Restrict(m, DOMAIN m \ {TtlKey})]
       ELSE [d |-> m[TtlKey].ExpiresAt - now, after |-> m]

\* case "TTL": wr.WriteInteger(int64(ttl.Seconds())); tracking is off
TtlCommand ==
  /\ LET r == TTL(shard, clock)
     IN /\ shard' = r.after
        /\ hist' = [hist EXCEPT !.asked = 1 - @,
                                !.reply = WriteInteger(DurationSeconds(r.d))]
  /\ UNCHANGED <<txVars, heap, itemPool, task, chan, clock, pubsub>>

\* Set(key, value, duration)
TtlSet(d) ==
  /\ hist.sets < MaxTtlSets
  /\ shard' = Put(shard, TtlKey, ExpItem("v1", IF d > 0 THEN clock + d ELSE 0))
  /\ hist' = [hist EXCEPT !.sets = @ + 1]
  /\ UNCHANGED <<txVars, heap, itemPool, task, chan, clock, pubsub>>

\* time passes
TtlTick ==
  /\ clock < MaxTtlClock
  /\ clock' = clock + 1
  /\ UNCHANGED <<txVars, shard, heap, itemPool, task, chan, hist, pubsub>>

InitTtl ==
  /\ InitConn
  /\ seed = "same"
  /\ shard = <<>>
  /\ heap = <<>>
  /\ itemPool = {}
  /\ task = <<>>
  /\ chan = <<>>
  /\ hist = [sets |-> 0, asked |-> 0, reply |-> WriteInteger(0)]
  /\ clock = 0
  /\ pubsub = NewPubSub

NextTtl ==
  \/ TtlCommand
  \/ \E d \in TtlDurations : TtlSet(d)
  \/ TtlTick

SpecTtl == InitTtl /\ [][NextTtl]_vars

\* the key is absent or its Item has expired
TtlGone == TtlKey \notin DOMAIN shard \/ Expired(shard[TtlKey].ExpiresAt, clock)

\* C33: TTL replies -2 for a key that is absent or has expired, -1 for a key
\* without expiry, and otherwise the whole seconds that remain, a value >= 0.
C33_TtlReply ==
  [][hist'.asked # hist.asked =>
       hist'.reply =
         IF TtlGone THEN WriteInteger(0 - 2)
         ELSE IF shard[TtlKey].ExpiresAt = 0 THEN WriteInteger(0 - 1)
         ELSE WriteInteger((shard[TtlKey].ExpiresAt - clock) \div SecondUnits)]_vars

\* the reply on a live key that has an expiry, and the removal of an expired one
TtlVolatileReply ==
  [][hist'.asked # hist.asked =>
       /\ (~TtlGone /\ shard[TtlKey].ExpiresAt # 0) =>
            hist'.reply = WriteInteger((shard[TtlKey].ExpiresAt - clock) \div SecondUnits)
       /\ (TtlKey \in DOMAIN shard /\ Expired(shard[TtlKey].ExpiresAt, clock)) =>
            TtlKey \notin DOMAIN shard']_vars

\* C34: while a read holds the Item it loaded and has not yet tested it, no
\* step changes that Item's fields or puts it in the pool.
C34_HeldItemUnchanged ==
  [][\A t \in ExpTasks :
       (task[t].pc = "check" /\ task'[t].pc = "check") =>
         /\ heap'[task[t].item] = heap[task[t].item]
         /\ task[t].item \notin itemPool']_vars

\* C35: the delete step of lazy expiry in Get / Exists / TTL removes the key
\* only if the Item mapped at the key at that moment has expired; a value a
\* concurrent Set stored after the expiry test is still there afterwards.
C35_ExpiryRemovesOnlyExpired ==
  [][\A t \in ExpTasks :
       ( /\ task[t].pc = "delete" /\ task'[t].pc # "delete"
         /\ task[t].op \in {"GET", "EXISTS", "TTL"}
         /\ shard # 0 /\ ~Expired(heap[shard].ExpiresAt, clock) )
       => shard' = shard]_vars

(* ---------------------------------------------------------------------- *)
(* SpecRegistry: calls of RegisterObserver, Track, NotifyObservers and     *)
(* UnregisterObserver in any order, each under d.mu                        *)
(* ---------------------------------------------------------------------- *)
RegistryCall(w) ==
  /\ used < MaxCmds
  /\ used' = used + 1
  /\ SetWorld(w)
  /\ UNCHANGED <<watching, inTx, txQueue, out, exec, seed, touched, last>>
  /\ UNCHANGED lowVars

RegisterCall(o) == RegistryCall(RegisterObserver(World, o))
TrackCall(k, o) == RegistryCall(Track(World, k, o))
NotifyCall(k) == RegistryCall(NotifyObservers(World, k))
UnregisterCall(o) == RegistryCall(UnregisterObserver(World, o))

\* New: both indices empty, no observer registered
InitRegistry ==
  /\ store = <<>>
  /\ invalidationTable = <<>>
  /\ clientKeys = <<>>
  /\ tracking = [c \in Clients |-> FALSE]
  /\ watching = [c \in Clients |-> {}]
  /\ inTx = [c \in Clients |-> FALSE]
  /\ dirty = [c \in Clients |-> FALSE]
  /\ txQueue = [c \in Clients |-> <<>>]
  /\ goroutines = [c \in Clients |-> [k \in Keys |-> 0]]
  /\ out = [c \in Clients |-> <<>>]
  /\ exec = [c \in Clients |-> IdleExec]
  /\ used = 0
  /\ touched = [c \in Clients |-> NoTouch]
  /\ last = [c \in Clients |-> "none"]
  /\ seed = "same"
  /\ InitLow

NextRegistry ==
  \/ \E o \in Clients : RegisterCall(o)
  \/ \E k \in Keys, o \in Clients : TrackCall(k, o)
  \/ \E k \in Keys : NotifyCall(k)
  \/ \E o \in Clients : UnregisterCall(o)

SpecRegistry == InitRegistry /\ [][NextRegistry]_vars

\* C36: observer o is in the observer set of a key iff the key is in o's
\* reverse entry, and no key is mapped to an empty observer set.
C36_IndicesMirror ==
  /\ \A k \in DOMAIN invalidationTable : invalidationTable[k] # {}
  /\ \A o \in Clients, k \in Keys :
       (k \in DOMAIN invalidationTable /\ o \in invalidationTable[k])
         <=> (o \in DOMAIN clientKeys /\ k \in clientKeys[o])

\* C36 witness: c1 was tracked on k2, notified and unregistered, and c2 is
\* the one observer of k1
C36_Witness ==
  /\ goroutines["c1"]["k2"] > 0
  /\ "c1" \notin DOMAIN clientKeys
  /\ "k1" \in DOMAIN invalidationTable /\ invalidationTable["k1"] = {"c2"}
  /\ "k2" \notin DOMAIN invalidationTable

\* C37: a value a push handed to a waiter is returned by at most one pop, and
\* until it is returned it is in the channel of a blocking pop that is still
\* in progress: no blocking pop returns the timeout error over a value it was
\* handed.
C37_HandedValueNotLost ==
  /\ ~hist.dup
  /\ \A v \in hist.handed \ hist.taken :
       \E t \in ListTasks : task[t].pc \in {"wait", "timedOut"} /\ v \in Range(chan[t])

(* ---------------------------------------------------------------------- *)
(* SpecRecreate: the list calls of SpecList, started on a key that holds a *)
(* list of one value (an earlier RPUSH k1 0 that has returned)             *)
(* ---------------------------------------------------------------------- *)
InitRecreate ==
  /\ InitConn
  /\ seed = "same"
  /\ shard = 1
  /\ heap = <<ListItem(<<"0">>)>>
  /\ itemPool = {}
  /\ task = [t \in ListTasks |-> IdleList]
  /\ chan = [t \in ListTasks |-> <<>>]
  /\ hist = [ops |-> 0, nextVal |-> 1, taken |-> {}, dup |-> FALSE, byBlock |-> {},
             byChan |-> {}, handed |-> {}, placed |-> {"0"}, mixed |-> FALSE]
  /\ clock = 0
  /\ pubsub = NewPubSub

SpecRecreate == InitRecreate /\ [][NextList]_vars

\* a blocking pop that is queued: registered, its deadline not fired, nothing
\* in its channel yet
Queued(t) == task[t].pc = "wait" /\ chan[t] = <<>> /\ WaitingOn(heap, t) # {}

\* C38: when a push to the key runs while a blocking pop is queued on the
\* key, the push hands a value to a registered blocking pop instead of leaving
\* every value in the list, also when the key's Item was removed and created
\* again since the pop was queued.
C38_WaiterNotStranded ==
  [][\A p \in ListTasks :
       (/\ task[p].pc = "push"
        /\ task'[p].pc = "idle"
        /\ \E t \in ListTasks : Queued(t))
       => \E t \in ListTasks : chan'[t] # chan[t]]_vars

\* C39: no invalidation push frame is written to a connection between the
\* array header of its EXEC and the last reply of the queued commands, in
\* sequential and in parallel mode.
C39_ExecReplyAtomic ==
  [][\A c \in Clients :
       (/\ exec[c].mode \in {"seq", "par"}
        /\ exec[c].queue # <<>>
        /\ \E k \in Keys : goroutines'[c][k] < goroutines[c][k])
       => out'[c] = out[c]]_vars

(* ---------------------------------------------------------------------- *)
(* SpecPeer: two connections on one key, their handlers, their push        *)
(* goroutines and their sockets; the peer of c1 may stop reading           *)
(* ---------------------------------------------------------------------- *)
MaxPeerCalls == 3
\* the frames a socket takes before a write to it blocks
SockCap == 1

\* the goroutine Invalidate starts for a connection
Pusher(c) == IF c = "c1" THEN "g1" ELSE "g2"
PeerTasks == Clients \cup {Pusher(c) : c \in Clients}
ConnOf(t) == IF t \in {"c1", "g1"} THEN "c1" ELSE "c2"

\* d.mu, Client.txMu and Client.mu
Registry == <<"d.mu", "">>
TxMu(c) == <<"txMu", c>>
Mu(c) == <<"mu", c>>

IdlePeer == [pc |-> "idle", held |-> {}, cmd |-> "", calls |-> 0, todo |-> {}]

peerRest == <<txVars, shard, heap, itemPool, chan, clock, pubsub>>

Holder(l) == {t \in PeerTasks : l \in task[t].held}
PeerLockFree(l) == Holder(l) = {}

At(t, pc) == [task EXCEPT ![t] = [@ EXCEPT !.pc = pc]]
Acquire(t, l, pc) == [task EXCEPT ![t] = [@ EXCEPT !.pc = pc, !.held = @ \cup {l}]]
Release(t, l, pc) == [task EXCEPT ![t] = [@ EXCEPT !.pc = pc, !.held = @ \ {l}]]

\* Handle: reader.Read() returns the next command and execute is called
PeerRead(h, cmd) ==
  /\ task[h].pc = "idle"
  /\ task[h].calls < MaxPeerCalls
  /\ task' = [task EXCEPT ![h] = [@ EXCEPT !.calls = @ + 1, !.cmd = cmd,
                                           !.pc = IF cmd = "WATCH" THEN "watchTx"
                                                  ELSE "txCheck"]]
  /\ UNCHANGED <<hist, peerRest>>

\* case "WATCH": c.txMu.Lock() with the unlock deferred, and the keys marked
WatchTxLock(h) ==
  /\ task[h].pc = "watchTx"
  /\ PeerLockFree(TxMu(h))
  /\ task' = Acquire(h, TxMu(h), "muLock")
  /\ UNCHANGED <<hist, peerRest>>

\* "Queue if inside Transaction": c.txMu.Lock(), c.inTx is false, c.txMu.Unlock()
TxCheck(h) ==
  /\ task[h].pc = "txCheck"
  /\ PeerLockFree(TxMu(h))
  /\ task' = At(h, "muLock")
  /\ UNCHANGED <<hist, peerRest>>

\* c.mu.Lock() of WATCH, and mu.Lock() of Normal Execution
MuLock(h) ==
  /\ task[h].pc = "muLock"
  /\ PeerLockFree(Mu(h))
  /\ task' = Acquire(h, Mu(h),
                     CASE task[h].cmd = "GET" /\ hist.tracking[h] -> "track"
                       [] task[h].cmd = "SET" -> "notifyLock"
                       [] OTHER -> "write")
  /\ hist' = [hist EXCEPT !.tracking[h] = @ \/ task[h].cmd = "TRACKING"]
  /\ UNCHANGED peerRest

\* GET with tracking on: Track, the whole section under d.mu
PeerTrack(h) ==
  /\ task[h].pc = "track"
  /\ PeerLockFree(Registry)
  /\ hist' = [hist EXCEPT !.tracked = @ \cup {h}]
  /\ task' = At(h, "write")
  /\ UNCHANGED peerRest

\* SET: the value is stored, then NotifyObservers: d.mu.Lock() and the
\* observers of the key
PeerNotifyLock(h) ==
  /\ task[h].pc = "notifyLock"
  /\ PeerLockFree(Registry)
  /\ task' = [task EXCEPT ![h] = [@ EXCEPT !.pc = "invalidate",
                                           !.held = @ \cup {Registry},
                                           !.todo = hist.tracked]]
  /\ UNCHANGED <<hist, peerRest>>

\* NotifyObservers calls o.Invalidate(key): c.txMu.Lock(), the dirty flag,
\* c.txMu.Unlock(), and the push goroutine is started
PeerInvalidate(h, o) ==
  /\ task[h].pc = "invalidate"
  /\ o \in task[h].todo
  /\ PeerLockFree(TxMu(o))
  /\ hist' = [hist EXCEPT !.pending[o] = @ + 1]
  /\ task' = [task EXCEPT ![h] = [@ EXCEPT !.todo = @ \ {o}]]
  /\ UNCHANGED peerRest

\* NotifyObservers: the table entry of the key is deleted, d.mu.Unlock()
PeerNotifyDone(h) ==
  /\ task[h].pc = "invalidate"
  /\ task[h].todo = {}
  /\ hist' = [hist EXCEPT !.tracked = {}]
  /\ task' = Release(h, Registry, "write")
  /\ UNCHANGED peerRest

\* the reply is written to the connection, which takes it while the socket
\* has room; then the deferred unlocks run
PeerReply(h) ==
  /\ task[h].pc = "write"
  /\ hist.sock[h] < SockCap
  /\ hist' = [hist EXCEPT !.sock[h] = @ + 1]
  /\ task' = [task EXCEPT ![h] = [@ EXCEPT !.pc = "idle", !.held = {}]]
  /\ UNCHANGED peerRest

\* the goroutine of Invalidate: c.mu.Lock()
PusherLock(c) ==
  /\ hist.pending[c] > 0
  /\ task[Pusher(c)].pc = "idle"
  /\ PeerLockFree(Mu(c))
  /\ hist' = [hist EXCEPT !.pending[c] = @ - 1]
  /\ task' = Acquire(Pusher(c), Mu(c), "write")
  /\ UNCHANGED peerRest

\* the goroutine of Invalidate: the push frame, and the deferred c.mu.Unlock()
PusherWrite(c) ==
  /\ task[Pusher(c)].pc = "write"
  /\ hist.sock[c] < SockCap
  /\ hist' = [hist EXCEPT !.sock[c] = @ + 1]
  /\ task' = Release(Pusher(c), Mu(c), "idle")
  /\ UNCHANGED peerRest

\* the peer reads what its socket holds
PeerReceive(c) ==
  /\ hist.reading[c]
  /\ hist.sock[c] > 0
  /\ hist' = [hist EXCEPT !.sock[c] = 0]
  /\ UNCHANGED <<task, peerRest>>

\* the peer of c1 stops reading, for good; it may go on sending commands
PeerStops ==
  /\ hist.reading["c1"]
  /\ hist' = [hist EXCEPT !.reading["c1"] = FALSE]
  /\ UNCHANGED <<task, peerRest>>

InitPeer ==
  /\ InitConn
  /\ seed = "same"
  /\ shard = 0
  /\ heap = <<>>
  /\ itemPool = {}
  /\ task = [t \in PeerTasks |-> IdlePeer]
  /\ chan = <<>>
  /\ hist = [tracking |-> [c \in Clients |-> FALSE],
             tracked |-> {},
             pending |-> [c \in Clients |-> 0],
             sock |-> [c \in Clients |-> 0],
             reading |-> [c \in Clients |-> TRUE]]
  /\ clock = 0
  /\ pubsub = NewPubSub

NextPeer ==
  \/ \E h \in Clients, cmd \in {"TRACKING", "GET", "SET", "WATCH"} : PeerRead(h, cmd)
  \/ \E h \in Clients : WatchTxLock(h)
  \/ \E h \in Clients : TxCheck(h)
  \/ \E h \in Clients : MuLock(h)
  \/ \E h \in Clients : PeerTrack(h)
  \/ \E h \in Clients : PeerNotifyLock(h)
  \/ \E h \in Clients, o \in Clients : PeerInvalidate(h, o)
  \/ \E h \in Clients : PeerNotifyDone(h)
  \/ \E h \in Clients : PeerReply(h)
  \/ \E c \in Clients : PusherLock(c)
  \/ \E c \in Clients : PusherWrite(c)
  \/ \E c \in Clients : PeerReceive(c)
  \/ PeerStops

SpecPeer == InitPeer /\ [][NextPeer]_vars

\* the locks a task is waiting for
Wanted(t) ==
  CASE task[t].pc \in {"watchTx", "txCheck"} -> {TxMu(t)}
    [] task[t].pc = "muLock" -> {Mu(t)}
    [] task[t].pc \in {"track", "notifyLock"} -> {Registry}
    [] task[t].pc = "invalidate" -> {TxMu(o) : o \in task[t].todo}
    [] OTHER -> {}

\* t waits for a lock that u holds
WaitsFor(t, u) == t # u /\ \E l \in Wanted(t) : l \in task[u].held

\* a write to the socket of a peer that has stopped reading never returns
InBlockedWrite(t) ==
  task[t].pc = "write" /\ hist.sock[ConnOf(t)] = SockCap /\ ~hist.reading[ConnOf(t)]

\* the tasks that wait, directly or through other tasks, for a task of S
RECURSIVE StuckBehind(_)
StuckBehind(S) ==
  LET T == S \cup {t \in PeerTasks : \E u \in S : WaitsFor(t, u)}
  IN IF T = S THEN S ELSE StuckBehind(T)

\* C40: the handler and the push goroutine of a connection whose peer reads
\* never wait, directly or through the transaction mutex of another
\* connection, for a write to a peer that has stopped reading, and no task
\* waits for itself through a chain of locks.
C40_BlockedPeerBlocksNobody ==
  /\ \A t \in PeerTasks :
       (ConnOf(t) = "c2") => t \notin StuckBehind({u \in PeerTasks : InBlockedWrite(u)})
  /\ \A t \in PeerTasks :
       t \notin StuckBehind({u \in PeerTasks : WaitsFor(u, t)})

====
